---- MODULE Spec2Model ----
(***************************************************************************)
(* A model of the string utilities of rust-common: the word-case engine of *)
(* src/str/convert.rs (WordCase, Case, CapitalizedString), the iterator    *)
(* adapter it splits with (extensions/iter.rs) and the string metrics and  *)
(* ranking of src/str/filter.rs, and the small utilities around them: the  *)
(* file helpers of src/io.rs, the consent prompt of src/lib.rs and the     *)
(* BitSet of src/collections/bit_set.rs.                                   *)
(*                                                                         *)
(* A text is a sequence of characters, a character a one-letter string.    *)
(* Option<T> is a sequence of at most one element: None is <<>>, Some(x)   *)
(* is <<x>>.                                                               *)
(***************************************************************************)
EXTENDS Integers, Sequences, FiniteSets, TLC

VARIABLES
    op,        \* the operation that produced the current state
    data,      \* CapitalizedString: the source text the value borrows from
    cs,        \* CapitalizedString: Ok(value) / Err(MixedSeperators) / not built
    spl,       \* Case::split: the separator it was called with and its words
    arg,       \* CapitalizedString: the argument of the last call and whether
               \* it was the case the value already had
    lev,       \* Levenshtein: the call's arguments and its results
    srt,       \* sort_with: the call's arguments and its result
    bst,       \* SameStartBoost: the metric, the call's arguments and its result
    mv,        \* move_file: the filesystem, the call's arguments and its result
    inp,       \* Inputs: the value, the lines on stdin and ask_consent's result
    tmp,       \* TmpFile: the value, the filesystem and the removals performed
    bits,      \* BitSet: the bytes and the result of the last query
    trl,       \* truncate_last_lines: the file and the locals of the call
    chk,       \* chunked: the source, the iterator and the chunks it yielded
    cnv        \* Case::convert: the call's arguments and what it returned

vars == <<op, data, cs, spl, arg, lev, srt, bst, mv, inp, tmp, bits, trl, chk, cnv>>

\* per state machine, the variables of the other ones
restCap == <<lev, srt, bst, mv, inp, tmp, bits, trl, chk, cnv>>
restLev == <<data, cs, spl, arg, srt, bst, mv, inp, tmp, bits, trl, chk, cnv>>
restSort == <<data, cs, spl, arg, lev, bst, mv, inp, tmp, bits, trl, chk, cnv>>
restBoost == <<data, cs, spl, arg, lev, srt, mv, inp, tmp, bits, trl, chk, cnv>>
restMove == <<data, cs, spl, arg, lev, srt, bst, inp, tmp, bits, trl, chk, cnv>>
restInputs == <<data, cs, spl, arg, lev, srt, bst, mv, tmp, bits, trl, chk, cnv>>
restTmp == <<data, cs, spl, arg, lev, srt, bst, mv, inp, bits, trl, chk, cnv>>
restBits == <<data, cs, spl, arg, lev, srt, bst, mv, inp, tmp, trl, chk, cnv>>
restTrunc == <<data, cs, spl, arg, lev, srt, bst, mv, inp, tmp, bits, chk, cnv>>
restChunk == <<data, cs, spl, arg, lev, srt, bst, mv, inp, tmp, bits, trl, cnv>>
restConv == <<data, cs, spl, arg, lev, srt, bst, mv, inp, tmp, bits, trl, chk>>

--------------------------------------------------------------------------
(* Bounds of the model *)

\* longest generated source text of a CapitalizedString
MaxLen == 3
\* longest generated argument of the Levenshtein metric
MaxLevLen == 3

--------------------------------------------------------------------------
(* Option<T> *)

None == <<>>
Some(x) == <<x>>
IsSome(o) == Len(o) = 1
Unwrap(o) == o[1]

--------------------------------------------------------------------------
(* Characters: char::is_uppercase, char::is_lowercase, to_uppercase, ...  *)

Lowers == <<"a","b","c","d","e","f","g","h","i","j","k","l","m",
            "n","o","p","q","r","s","t","u","v","w","x","y","z","é">>
Uppers == <<"A","B","C","D","E","F","G","H","I","J","K","L","M",
            "N","O","P","Q","R","S","T","U","V","W","X","Y","Z","É">>

UpperChars == {Uppers[i] : i \in DOMAIN Uppers}
LowerChars == {Lowers[i] : i \in DOMAIN Lowers}

is_uppercase(c) == c \in UpperChars
is_lowercase(c) == c \in LowerChars

char_to_uppercase(c) ==
    IF is_lowercase(c) THEN Uppers[CHOOSE i \in DOMAIN Lowers : Lowers[i] = c] ELSE c
char_to_lowercase(c) ==
    IF is_uppercase(c) THEN Lowers[CHOOSE i \in DOMAIN Uppers : Uppers[i] = c] ELSE c

\* str::to_uppercase / str::to_lowercase
to_uppercase(s) == [i \in 1..Len(s) |-> char_to_uppercase(s[i])]
to_lowercase(s) == [i \in 1..Len(s) |-> char_to_lowercase(s[i])]

\* char::len_utf8: the letters outside ASCII take two bytes
utf8_len(c) == IF c \in {"é", "É"} THEN 2 ELSE 1

\* the byte offset at which the character after the first n ones starts
RECURSIVE byte_offset(_, _)
byte_offset(s, n) == IF n = 0 THEN 0 ELSE byte_offset(s, n - 1) + utf8_len(s[n])

\* str::is_char_boundary
is_char_boundary(s, index) == \E n \in 0..Len(s) : byte_offset(s, n) = index

\* &s[from..to] with 0-based offsets, from inclusive, to exclusive.  The
\* offsets count characters; they are those of the bytes whenever the
\* characters before them are ASCII, and str::match_indices only yields
\* offsets at which a character starts.
Slice(s, from, to) == SubSeq(s, from + 1, to)

\* char::to_ascii_lowercase
to_ascii_lowercase(c) == IF utf8_len(c) = 1 THEN char_to_lowercase(c) ELSE c

\* a comparison that folds the case of every letter, as a comparison of
\* char::to_lowercase would
compare_char_unicode(a, b, ignore_case) ==
    (ignore_case /\ char_to_lowercase(a) = char_to_lowercase(b)) \/ a = b

\* crate::str::compare_char
compare_char(a, b, ignore_case) ==
    (ignore_case /\ to_ascii_lowercase(a) = to_ascii_lowercase(b)) \/ a = b

--------------------------------------------------------------------------
(* Cow<str>: a word is a text that is either borrowed from the source or  *)
(* owned                                                                   *)

Borrowed(s) == [s |-> s, owned |-> FALSE]
Owned(s) == [s |-> s, owned |-> TRUE]

--------------------------------------------------------------------------
(* WordCase *)

Lower == "Lower"
Upper == "Upper"
Capitalized == "Capitalized"
WordCases == {Lower, Upper, Capitalized}

word_not_in_case(case, word) ==
    CASE case = Lower -> \E i \in 1..Len(word) : is_uppercase(word[i])
      [] case = Upper -> \E i \in 1..Len(word) : is_lowercase(word[i])
      [] case = Capitalized ->
            /\ Len(word) # 0
            /\ \/ \E i \in 1..1 : is_lowercase(word[i])
               \/ \E i \in 2..Len(word) : is_uppercase(word[i])

\* word_not_in_case panics: &word[..1] and &word[1..] slice at byte 1,
\* which lies inside the first character when that one is not ASCII
word_not_in_case_panics(case, word) ==
    case = Capitalized /\ Len(word) # 0 /\ ~is_char_boundary(word, 1)

\* WordCase::convert panics, for the same slices
WordCase_convert_panics(case, w) ==
    Len(w.s) # 0 /\ case = Capitalized /\ ~is_char_boundary(w.s, 1)

\* WordCase::convert on a Cow
WordCase_convert(case, w) ==
    IF Len(w.s) = 0 THEN w
    ELSE CASE case = Lower -> Owned(to_lowercase(w.s))
           [] case = Upper -> Owned(to_uppercase(w.s))
           [] case = Capitalized ->
                Owned(to_uppercase(Slice(w.s, 0, 1))
                      \o to_lowercase(Slice(w.s, 1, Len(w.s))))

\* conver_if_needed without the membership test: every word is rewritten
conver_if_needed_always(case, w) ==
    IF IsSome(case)
    THEN [word |-> WordCase_convert(Unwrap(case), w), changed |-> TRUE]
    ELSE [word |-> w, changed |-> FALSE]

\* WordCase::conver_if_needed: the word and whether has_changed was set
conver_if_needed(case, w) ==
    IF IsSome(case) /\ word_not_in_case(Unwrap(case), w.s)
    THEN [word |-> WordCase_convert(Unwrap(case), w), changed |-> TRUE]
    ELSE [word |-> w, changed |-> FALSE]

\* WordCase::conver_if_needed panics
conver_if_needed_panics(case, w) ==
    /\ IsSome(case)
    /\ \/ word_not_in_case_panics(Unwrap(case), w.s)
       \/ (word_not_in_case(Unwrap(case), w.s) /\ WordCase_convert_panics(Unwrap(case), w))

--------------------------------------------------------------------------
(* Case *)

Camel == [kind |-> "Camel", case |-> None, seperator |-> None]
Other(case, seperator) == [kind |-> "Other", case |-> case, seperator |-> seperator]

Pascal == Other(Some(Capitalized), None)
Snake == Other(Some(Lower), Some("_"))
ScreamingSnake == Other(Some(Upper), Some("_"))
Kebab == Other(Some(Lower), Some("-"))
CaseUpper == Other(Some(Upper), Some(" "))
CaseLower == Other(Some(Lower), Some(" "))

\* Case::seperator
seperator(case) == IF case.kind = "Camel" THEN None ELSE case.seperator

\* a split that drops the empty fragments, as str::split_terminator or a
\* filter on is_empty would
RECURSIVE str_split_nonempty(_, _, _)
str_split_nonempty(s, sep, cur) ==
    LET done == IF cur = <<>> THEN <<>> ELSE <<cur>>
    IN  IF s = <<>> THEN done
        ELSE IF Head(s) = sep THEN done \o str_split_nonempty(Tail(s), sep, <<>>)
        ELSE str_split_nonempty(Tail(s), sep, Append(cur, Head(s)))

\* str::split(char): every occurrence splits, empty fragments are kept
RECURSIVE str_split(_, _, _)
str_split(s, sep, cur) ==
    IF s = <<>> THEN <<cur>>
    ELSE IF Head(s) = sep THEN <<cur>> \o str_split(Tail(s), sep, <<>>)
    ELSE str_split(Tail(s), sep, Append(cur, Head(s)))

split_seperator(text, sep) ==
    LET parts == str_split(text, sep, <<>>)
    IN  [i \in 1..Len(parts) |-> Borrowed(parts[i])]

\* str::match_indices(char::is_uppercase): the 0-based offsets of the matches
RECURSIVE match_indices(_, _)
match_indices(text, from) ==
    IF from > Len(text) THEN <<>>
    ELSE IF is_uppercase(text[from])
         THEN <<from - 1>> \o match_indices(text, from + 1)
         ELSE match_indices(text, from + 1)

\* extensions::iter::State::new
State_new(a, b) ==
    CASE ~IsSome(a) /\ ~IsSome(b) -> None
      [] ~IsSome(a) /\ IsSome(b) -> Some([kind |-> "Start", a |-> Unwrap(b), b |-> Unwrap(b)])
      [] IsSome(a) /\ IsSome(b) -> Some([kind |-> "Middle", a |-> Unwrap(a), b |-> Unwrap(b)])
      [] IsSome(a) /\ ~IsSome(b) -> Some([kind |-> "End", a |-> Unwrap(a), b |-> Unwrap(a)])

\* OpenBorderWindowIterator: next() called until it returns None; `iter` is
\* what the wrapped iterator still yields, `next` the field of that name
RECURSIVE open_border_pairs(_, _)
open_border_pairs(iter, next) ==
    LET new == IF iter = <<>> THEN None ELSE Some(Head(iter))
        rest == IF iter = <<>> THEN <<>> ELSE Tail(iter)
        st == State_new(next, new)
    IN  IF ~IsSome(st) THEN <<>>
        ELSE <<Unwrap(st)>> \o open_border_pairs(rest, new)

\* the closure without the `e != 0` test: an empty leading word is kept
split_piece_keep_empty(text, it) ==
    CASE it.kind = "Start" -> Some(Slice(text, 0, it.a))
      [] it.kind = "Middle" -> Some(Slice(text, it.a, it.b))
      [] it.kind = "End" -> Some(Slice(text, it.a, Len(text)))

\* the closure of the filter_map in split_capitalized
split_piece(text, it) ==
    CASE it.kind = "Start" -> IF it.a # 0 THEN Some(Slice(text, 0, it.a)) ELSE None
      [] it.kind = "Middle" -> Some(Slice(text, it.a, it.b))
      [] it.kind = "End" -> Some(Slice(text, it.a, Len(text)))

RECURSIVE filter_map_pieces(_, _)
filter_map_pieces(text, states) ==
    IF states = <<>> THEN <<>>
    ELSE LET p == split_piece(text, Head(states))
         IN  (IF IsSome(p) THEN <<Borrowed(Unwrap(p))>> ELSE <<>>)
             \o filter_map_pieces(text, Tail(states))

split_capitalized(text) ==
    filter_map_pieces(text, open_border_pairs(match_indices(text, 1), None))

\* Case::split
Case_split(sep, text) ==
    IF IsSome(sep) THEN split_seperator(text, Unwrap(sep)) ELSE split_capitalized(text)

\* Case::convert in which Camel capitalizes its first word as well
Case_convert_all_capitalized(case, words) ==
    LET target(i) == IF case.kind = "Camel" THEN Some(Capitalized) ELSE case.case
        res == [i \in 1..Len(words) |-> conver_if_needed(target(i), words[i])]
    IN  [changed |-> \E i \in 1..Len(words) : res[i].changed,
         words |-> [i \in 1..Len(words) |-> res[i].word]]

\* Case::convert: (has_changed, words)
Case_convert(case, words) ==
    LET target(i) == IF case.kind = "Camel"
                     THEN (IF i = 1 THEN Some(Lower) ELSE Some(Capitalized))
                     ELSE case.case
        res == [i \in 1..Len(words) |-> conver_if_needed(target(i), words[i])]
    IN  [changed |-> \E i \in 1..Len(words) : res[i].changed,
         words |-> [i \in 1..Len(words) |-> res[i].word]]

\* Case::convert panics: one of its calls of conver_if_needed does
Case_convert_panics(case, words) ==
    \E i \in 1..Len(words) :
        conver_if_needed_panics(IF case.kind = "Camel"
                                THEN (IF i = 1 THEN Some(Lower) ELSE Some(Capitalized))
                                ELSE case.case,
                                words[i])

--------------------------------------------------------------------------
(* CapitalizedString *)

\* the scan of CapitalizedString::new over data.chars(), with its break
RECURSIVE scan_case(_, _, _)
scan_case(chars, contains_lower, contains_upper) ==
    IF chars = <<>> THEN <<contains_lower, contains_upper>>
    ELSE LET l == contains_lower \/ is_lowercase(Head(chars))
             u == contains_upper \/ is_uppercase(Head(chars))
         IN  IF l /\ u THEN <<l, u>> ELSE scan_case(Tail(chars), l, u)

\* a classification that looks at the first character only
detect_case_first_only(text) ==
    IF text = <<>> THEN CaseLower
    ELSE IF is_uppercase(text[1]) THEN CaseUpper ELSE CaseLower

\* the case CapitalizedString::new gives a text when no seperator is given
detect_case(text) ==
    IF text = <<>> THEN CaseLower
    ELSE LET first == text[1]
             is_first_upper == is_uppercase(first)
             found == scan_case(text, ~is_first_upper /\ is_lowercase(first), is_first_upper)
             contains_lower == found[1]
             contains_upper == found[2]
         IN  CASE ~contains_upper -> CaseLower
               [] ~contains_lower /\ contains_upper -> CaseUpper
               [] is_first_upper /\ contains_lower /\ contains_upper -> Pascal
               [] ~is_first_upper /\ contains_lower /\ contains_upper -> Camel

from_words_unchecked(original_data, words, case) ==
    [original_data |-> original_data, words |-> words, case |-> case]

\* CapitalizedString::new
CapitalizedString_new(text, sep) ==
    LET case == IF IsSome(sep) THEN Other(None, sep) ELSE detect_case(text)
    IN  from_words_unchecked(Some(text), Case_split(seperator(case), text), case)

\* self.words.len() as change_case reads it after std::mem::take(&mut self.words)
words_len_after_take(self) == 0

\* CapitalizedString::change_case panics
change_case_panics(self, case) ==
    self.case # case /\ Case_convert_panics(case, self.words)

\* change_case without its early return: the words are converted and the
\* original text is dropped on every call
change_case_rebuild(self, case) ==
    [original_data |-> None,
     words |-> Case_convert(case, self.words).words,
     case |-> case]

\* CapitalizedString::change_case
change_case(self, case) ==
    IF self.case = case THEN self
    ELSE LET conv == Case_convert(case, self.words)
             invalidate == conv.changed
                           \/ (words_len_after_take(self) > 1
                               /\ seperator(self.case) # seperator(case))
         IN  [original_data |-> IF invalidate THEN None ELSE self.original_data,
              words |-> conv.words,
              case |-> case]

\* CapitalizedString::into_owned
into_owned(self) ==
    [original_data |-> None,
     words |-> [i \in 1..Len(self.words) |-> Owned(self.words[i].s)],
     case |-> self.case]

\* itertools join
RECURSIVE join(_, _)
join(words, sep) ==
    IF words = <<>> THEN <<>>
    ELSE IF Len(words) = 1 THEN words[1].s
    ELSE words[1].s \o sep \o join(Tail(words), sep)

\* a rendering that always rebuilds the text and forgets the separator
render_concat(self) == Owned(join(self.words, None))

\* From<&CapitalizedString> for Cow<str>, and to_string
render(self) ==
    IF IsSome(self.original_data) THEN Borrowed(Unwrap(self.original_data))
    ELSE Owned(join(self.words, seperator(self.case)))

to_string(self) == render(self).s

\* TryFrom<&str>
DELIMITERS == {" ", "-", "_"}

\* try_from whose error carries every known delimiter, not the ones found
try_from_all_delimiters(text) ==
    LET candidates == {c \in DELIMITERS : \E i \in 1..Len(text) : text[i] = c}
    IN  IF Cardinality(candidates) = 0
           THEN [ok |-> TRUE, v |-> CapitalizedString_new(text, None), err |-> {}]
        ELSE IF Cardinality(candidates) = 1
           THEN [ok |-> TRUE,
                 v |-> CapitalizedString_new(text, Some(CHOOSE c \in candidates : TRUE)),
                 err |-> {}]
        ELSE [ok |-> FALSE, v |-> from_words_unchecked(None, <<>>, Camel), err |-> DELIMITERS]

try_from(text) ==
    LET candidates == {c \in DELIMITERS : \E i \in 1..Len(text) : text[i] = c}
    IN  IF Cardinality(candidates) = 0
           THEN [ok |-> TRUE, v |-> CapitalizedString_new(text, None), err |-> {}]
        ELSE IF Cardinality(candidates) = 1
           THEN [ok |-> TRUE,
                 v |-> CapitalizedString_new(text, Some(CHOOSE c \in candidates : TRUE)),
                 err |-> {}]
        ELSE [ok |-> FALSE, v |-> from_words_unchecked(None, <<>>, Camel), err |-> candidates]

--------------------------------------------------------------------------
(* The inputs of the CapitalizedString state machine *)

Alphabet == {"a", "B", " ", "-", "_"}

RECURSIVE TextsOfLen(_, _)
TextsOfLen(A, n) ==
    IF n = 0 THEN {<<>>}
    ELSE {Append(t, c) : t \in TextsOfLen(A, n - 1), c \in A}

TextsUpTo(A, n) == UNION {TextsOfLen(A, k) : k \in 0..n}

SomeData == <<"s","o","m","e"," ","d","a","t","a">>
TestWithoutSeperator ==
    <<"T","e","s","t","W","i","t","h","o","u","t","S","e","p","e","r","a","t","o","r">>
testWithoutSeperator ==
    <<"t","e","s","t","W","i","t","h","o","u","t","S","e","p","e","r","a","t","o","r">>

\* a text whose first character is not ASCII
ete == <<"é", "t", "é">>

ExampleTexts == {SomeData, TestWithoutSeperator, testWithoutSeperator, ete}

SourceTexts == TextsUpTo(Alphabet, MaxLen) \cup ExampleTexts

Seperators == {None} \cup {Some(c) : c \in DELIMITERS}
\* the separators handed to new and to Case::split: any character may be one
AnySeperators == Seperators \cup {Some("a"), Some("B")}

Cases == {Camel} \cup {Other(c, s) : c \in {None} \cup {Some(w) : w \in WordCases},
                                     s \in Seperators}

NoValue == [ok |-> FALSE, v |-> from_words_unchecked(None, <<>>, Camel), err |-> {}]
NoSplit == [sep |-> None, words |-> <<>>]
NoLev == [a |-> <<>>, b |-> <<>>, ignore_case |-> FALSE, raw |-> 0,
          dist |-> [kind |-> "NaN", num |-> 0, den |-> 1]]
NoSort == [candidates |-> <<>>, input |-> <<>>, result |-> <<>>]
NoArg == [sep |-> None, case |-> Camel, same |-> FALSE]
NoBoost == "idle"
NoMove == "idle"
NoInputs == "idle"
NoTmp == "idle"
NoBits == "idle"
NoTrunc == "idle"
NoChunk == "idle"
NoConv == "idle"

\* the variables of a state machine that is not the one running
CapIdle == data = <<>> /\ cs = NoValue /\ spl = NoSplit /\ arg = NoArg
LevIdle == lev = NoLev
SortIdle == srt = NoSort
BoostIdle == bst = NoBoost
MoveIdle == mv = NoMove
InputsIdle == inp = NoInputs
TmpIdle == tmp = NoTmp
BitsIdle == bits = NoBits
TruncIdle == trl = NoTrunc
ChunkIdle == chk = NoChunk
ConvIdle == cnv = NoConv

--------------------------------------------------------------------------
(* The CapitalizedString state machine: a source text is chosen, a value  *)
(* is built from it by new or try_from, and change_case is called on it   *)
(* any number of times.                                                    *)

CapInit ==
    /\ op = "start"
    /\ data \in SourceTexts
    /\ cs = NoValue
    /\ spl = NoSplit
    /\ arg = NoArg
    /\ LevIdle /\ SortIdle /\ BoostIdle /\ MoveIdle /\ InputsIdle /\ TmpIdle /\ BitsIdle
    /\ TruncIdle /\ ChunkIdle /\ ConvIdle

New ==
    /\ op = "start"
    /\ \E sep \in AnySeperators :
          /\ cs' = [ok |-> TRUE, v |-> CapitalizedString_new(data, sep), err |-> {}]
          /\ arg' = [sep |-> sep, case |-> Camel, same |-> FALSE]
    /\ op' = "new"
    /\ UNCHANGED <<data, spl, restCap>>

TryFrom ==
    /\ op = "start"
    /\ cs' = try_from(data)
    /\ op' = "try_from"
    /\ UNCHANGED <<data, spl, arg, restCap>>

ChangeCase ==
    /\ op \in {"new", "try_from", "change_case"}
    /\ cs.ok
    /\ \E case \in Cases :
          /\ arg' = [sep |-> None, case |-> case, same |-> (cs.v.case = case)]
          /\ IF change_case_panics(cs.v, case)
             THEN \* the panic unwinds after std::mem::take has emptied words
                  /\ cs' = [cs EXCEPT !.v.words = <<>>]
                  /\ op' = "panic"
             ELSE /\ cs' = [cs EXCEPT !.v = change_case(cs.v, case)]
                  /\ op' = "change_case"
    /\ UNCHANGED <<data, spl, restCap>>

\* Case::split called on the source text
Split ==
    /\ op = "start"
    /\ \E sep \in AnySeperators : spl' = [sep |-> sep, words |-> Case_split(sep, data)]
    /\ op' = "split"
    /\ UNCHANGED <<data, cs, arg, restCap>>

\* into_owned consumes the value; the model ends the life of the value here
IntoOwned ==
    /\ op \in {"new", "try_from", "change_case"}
    /\ cs.ok
    /\ cs' = [cs EXCEPT !.v = into_owned(cs.v)]
    /\ op' = "into_owned"
    /\ UNCHANGED <<data, spl, arg, restCap>>

CapNext == New \/ TryFrom \/ ChangeCase \/ Split \/ IntoOwned

SpecCap == CapInit /\ [][CapNext]_vars

--------------------------------------------------------------------------
(* Levenshtein (src/str/filter.rs)                                         *)

Min(x, y) == IF x <= y THEN x ELSE y
Max(x, y) == IF x >= y THEN x ELSE y

\* bool as usize
as_usize(b) == IF b THEN 1 ELSE 0

\* usize::overflowing_sub: the difference and whether it wrapped.  y is 0 or
\* 1 here, so the only wrapped difference is 0 - 1 = usize::MAX, which is
\* beyond the integers of the checker and is kept as a name
overflowing_sub(x, y) == <<IF x < y THEN "usize::MAX" ELSE x - y, x < y>>

\* Levenshtein::recursive_distance
RECURSIVE recursive_distance(_, _, _)
recursive_distance(ignore_case, a, b) ==
    IF a = <<>> THEN Len(b)
    ELSE IF b = <<>> THEN Len(a)
    ELSE IF compare_char(a[1], b[1], ignore_case)
         THEN recursive_distance(ignore_case, Tail(a), Tail(b))
    ELSE LET s1 == recursive_distance(ignore_case, Tail(a), b)
             s2 == recursive_distance(ignore_case, a, Tail(b))
             s3 == recursive_distance(ignore_case, Tail(a), Tail(b))
         IN  1 + Min(Min(s1, s2), s3)

\* a cell that leaves out the deletion cost v0[j + 1]
lev_cell_no_deletion(ignore_case, s_char, t_char, v0, v1, j) ==
    LET sub == overflowing_sub(v0[j + 1], as_usize(compare_char(s_char, t_char, ignore_case)))
    IN  IF sub[2] THEN 0
        ELSE LET insertion_cost == v1[j + 1]
             IN  Min(sub[1], insertion_cost) + 1

\* the value dynamic_distance stores in v1[j + 1]; the rows are Rust's
\* vectors shifted by one: v0[k + 1] here is v0[k] there
lev_cell(ignore_case, s_char, t_char, v0, v1, j) ==
    LET sub == overflowing_sub(v0[j + 1], as_usize(compare_char(s_char, t_char, ignore_case)))
    IN  IF sub[2] THEN 0
        ELSE LET deletion_cost == v0[j + 2]
                 insertion_cost == v1[j + 1]
             IN  Min(Min(sub[1], insertion_cost), deletion_cost) + 1

\* the inner loop of dynamic_distance: for (j, &t_char) in t.iter().enumerate()
RECURSIVE lev_row(_, _, _, _, _, _)
lev_row(ignore_case, s_char, t, v0, v1, j) ==
    IF j >= Len(t) THEN v1
    ELSE lev_row(ignore_case, s_char, t, v0,
                 [v1 EXCEPT ![j + 2] = lev_cell(ignore_case, s_char, t[j + 1], v0, v1, j)],
                 j + 1)

\* the outer loop of dynamic_distance: for (i, s_char) in s.lzip(1..), with
\* the swap of the two rows at its end
RECURSIVE lev_rows(_, _, _, _, _, _)
lev_rows(ignore_case, s, t, i, v0, v1) ==
    IF i > Len(s) THEN v0
    ELSE LET row == lev_row(ignore_case, s[i], t, v0, [v1 EXCEPT ![1] = i], 0)
         IN  lev_rows(ignore_case, s, t, i + 1, row, v0)

\* Levenshtein::dynamic_distance
dynamic_distance(ignore_case, s, t) ==
    LET n == Len(t)
        v0 == [k \in 1..(n + 1) |-> k - 1]
        v1 == [k \in 1..(n + 1) |-> 0]
    IN  lev_rows(ignore_case, s, t, 1, v0, v1)[n + 1]

\* f64: a quotient of two usize values converted to f64; x / 0 is NaN when
\* x is 0 and +infinity otherwise
NaN == [kind |-> "NaN", num |-> 0, den |-> 1]
Infinity == [kind |-> "inf", num |-> 1, den |-> 1]
Ratio(num, den) == [kind |-> "num", num |-> num, den |-> den]

f64_div(num, den) ==
    IF den # 0 THEN Ratio(num, den)
    ELSE IF num = 0 THEN NaN ELSE Infinity

\* <Levenshtein as StrMetric>::distance
distance(ignore_case, option, input) ==
    LET lev_distance == dynamic_distance(ignore_case, option, input)
        max == Max(Len(option), Len(input))
    IN  f64_div(lev_distance, max)

\* f64::partial_cmp
partial_cmp(d1, d2) ==
    IF d1.kind = "NaN" \/ d2.kind = "NaN" THEN None
    ELSE IF d1.kind = "inf" THEN (IF d2.kind = "inf" THEN Some("Equal") ELSE Some("Greater"))
    ELSE IF d2.kind = "inf" THEN Some("Less")
    ELSE IF d1.num * d2.den < d2.num * d1.den THEN Some("Less")
    ELSE IF d1.num * d2.den > d2.num * d1.den THEN Some("Greater")
    ELSE Some("Equal")

--------------------------------------------------------------------------
(* sort_with (src/str/filter.rs)                                           *)

\* the comparator sort_with hands to sorted_by
sort_cmp(p1, p2) ==
    LET c == partial_cmp(p1.distance, p2.distance)
    IN  IF IsSome(c) THEN Unwrap(c) ELSE "Greater"

\* slice::sort_by is a stable sort that moves an element before another
\* only when the comparator says Less; on the short vectors of the model
\* it is an insertion sort
RECURSIVE insert_sorted(_, _)
insert_sorted(sorted, x) ==
    IF sorted = <<>> THEN <<x>>
    ELSE IF sort_cmp(x, sorted[Len(sorted)]) = "Less"
         THEN Append(insert_sorted(SubSeq(sorted, 1, Len(sorted) - 1), x), sorted[Len(sorted)])
         ELSE Append(sorted, x)

RECURSIVE sorted_by(_, _)
sorted_by(done, todo) ==
    IF todo = <<>> THEN done
    ELSE sorted_by(insert_sorted(done, Head(todo)), Tail(todo))

\* the projection handed to sort_with: a candidate is an item with a name
get_str(it) == it.str

\* sort_with with the Levenshtein metric
sort_with(ignore_case, iter, input) ==
    LET scored == [i \in 1..Len(iter) |->
                      [it |-> iter[i], distance |-> distance(ignore_case, get_str(iter[i]), input)]]
        sorted == sorted_by(<<>>, scored)
    IN  [i \in 1..Len(sorted) |-> sorted[i].it]

--------------------------------------------------------------------------
(* The Levenshtein state machine: two texts and the flag are chosen, then  *)
(* one of the three functions is called on them.                           *)

\* most candidates handed to sort_with
MaxCands == 3
\* longest generated candidate name and input of sort_with
MaxCandLen == 2

LevAlphabet == {"a", "A", "b"}

kitten == <<"k","i","t","t","e","n">>
sitting == <<"s","i","t","t","i","n","g">>

LevTexts == TextsUpTo(LevAlphabet, MaxLevLen)
LevPairs ==
    (LevTexts \X LevTexts)
        \cup {<<kitten, sitting>>, <<sitting, kitten>>}
        \cup {<< <<"é">>, <<"É">> >>, << <<"É", "a">>, <<"é", "A">> >>}

LevInit ==
    /\ op = "start"
    /\ \E p \in LevPairs, ic \in BOOLEAN :
          lev = [a |-> p[1], b |-> p[2], ignore_case |-> ic, raw |-> 0, dist |-> NaN]
    /\ CapIdle /\ SortIdle /\ BoostIdle /\ MoveIdle /\ InputsIdle /\ TmpIdle /\ BitsIdle
    /\ TruncIdle /\ ChunkIdle /\ ConvIdle

DynamicDistance ==
    /\ op = "start"
    /\ lev' = [lev EXCEPT !.raw = dynamic_distance(lev.ignore_case, lev.a, lev.b)]
    /\ op' = "dynamic_distance"
    /\ UNCHANGED restLev

RecursiveDistance ==
    /\ op = "start"
    /\ lev' = [lev EXCEPT !.raw = recursive_distance(lev.ignore_case, lev.a, lev.b)]
    /\ op' = "recursive_distance"
    /\ UNCHANGED restLev

Distance ==
    /\ op = "start"
    /\ lev' = [lev EXCEPT !.dist = distance(lev.ignore_case, lev.a, lev.b)]
    /\ op' = "distance"
    /\ UNCHANGED restLev

LevNext == DynamicDistance \/ RecursiveDistance \/ Distance

SpecLev == LevInit /\ [][LevNext]_vars

--------------------------------------------------------------------------
(* The sort_with state machine: candidates and an input are chosen and     *)
(* sort_with ranks them with the case-sensitive Levenshtein metric.        *)

apple == <<"a","p","p","l","e">>
apply == <<"a","p","p","l","y">>
ape == <<"a","p","e">>
appl == <<"a","p","p","l">>

CandTexts == TextsUpTo({"a"}, MaxCandLen) \cup {<<"b">>}

RECURSIVE SeqsUpTo(_, _)
SeqsUpTo(S, n) ==
    IF n = 0 THEN {<<>>}
    ELSE LET shorter == SeqsUpTo(S, n - 1)
         IN  shorter \cup {Append(q, x) : q \in shorter, x \in S}

\* the candidates: the i-th item has id i and the i-th name
Items(names) == [i \in 1..Len(names) |-> [id |-> i, str |-> names[i]]]

SortInputs ==
    {<<Items(names), input>> : names \in SeqsUpTo(CandTexts, MaxCands), input \in CandTexts}
        \cup {<<Items(<<apple, apply, ape>>), appl>>}

SortInit ==
    /\ op = "start"
    /\ \E p \in SortInputs : srt = [candidates |-> p[1], input |-> p[2], result |-> <<>>]
    /\ CapIdle /\ LevIdle /\ BoostIdle /\ MoveIdle /\ InputsIdle /\ TmpIdle /\ BitsIdle
    /\ TruncIdle /\ ChunkIdle /\ ConvIdle

SortWith ==
    /\ op = "start"
    /\ srt' = [srt EXCEPT !.result = sort_with(FALSE, srt.candidates, srt.input)]
    /\ op' = "sort_with"
    /\ UNCHANGED restSort

SortNext == SortWith

SpecSort == SortInit /\ [][SortNext]_vars

--------------------------------------------------------------------------
(* StrFilter, SameStartBoost (src/str/filter.rs)                           *)

\* str::starts_with
starts_with(s, prefix) ==
    Len(prefix) <= Len(s) /\ SubSeq(s, 1, Len(prefix)) = prefix

\* <StartsWithIgnoreCase as StrFilter>::filter
StartsWithIgnoreCase_filter(option, input) ==
    starts_with(to_lowercase(option), to_lowercase(input))

\* the blanket impl<F: StrFilter> StrMetric for F: 0 if the filter matches
\* and 1 if not
filter_distance(option, input) ==
    IF ~StartsWithIgnoreCase_filter(option, input) THEN Ratio(1, 1) ELSE Ratio(0, 1)

\* the metrics a SameStartBoost wraps in the model
LevenshteinMetric(ignore_case) == [kind |-> "Levenshtein", ignore_case |-> ignore_case]
StartsWithIgnoreCase == [kind |-> "StartsWithIgnoreCase", ignore_case |-> TRUE]
Metrics == {LevenshteinMetric(FALSE), LevenshteinMetric(TRUE), StartsWithIgnoreCase}

\* self.other.distance(option, input)
other_distance(other, option, input) ==
    IF other.kind = "Levenshtein" THEN distance(other.ignore_case, option, input)
    ELSE filter_distance(option, input)

\* f64 multiplication on the values of the model (none of them negative):
\* NaN is absorbing, infinity times zero is NaN
f64_mul(x, y) ==
    IF x.kind = "NaN" \/ y.kind = "NaN" THEN NaN
    ELSE IF x.kind = "inf" THEN (IF y.kind = "num" /\ y.num = 0 THEN NaN ELSE Infinity)
    ELSE IF y.kind = "inf" THEN (IF x.num = 0 THEN NaN ELSE Infinity)
    ELSE Ratio(x.num * y.num, x.den * y.den)

\* f64 negation of a number
f64_neg(x) == IF x.kind = "num" THEN Ratio(0 - x.num, x.den) ELSE x

\* f64::mul_add: self * a + b, for a number a and a number b
f64_mul_add(self, a, b) ==
    IF self.kind = "NaN" THEN NaN
    ELSE IF self.kind = "inf" THEN (IF a.num = 0 THEN NaN ELSE Infinity)
    ELSE Ratio(self.num * a.num * b.den + b.num * self.den * a.den,
               self.den * a.den * b.den)

\* option.chars().zip(input.chars()).take_while(compare_char).count()
RECURSIVE prefix_len(_, _, _)
prefix_len(ignore_case, option, input) ==
    IF option = <<>> \/ input = <<>> THEN 0
    ELSE IF compare_char(Head(option), Head(input), ignore_case)
         THEN 1 + prefix_len(ignore_case, Tail(option), Tail(input))
         ELSE 0

\* <SameStartBoost<O> as StrMetric>::distance
boost_distance(self, option, input) ==
    LET dist == other_distance(self.other, option, input)
        max == Max(Len(option), Len(input))
        prefix_factor == f64_div(prefix_len(self.ignore_case, option, input), max)
    IN  f64_mul(dist, f64_mul_add(prefix_factor, f64_neg(self.same_start_bonus), Ratio(1, 1)))

--------------------------------------------------------------------------
(* The SameStartBoost state machine: a boost over one of the metrics and   *)
(* two texts are chosen, then distance is called.                          *)

MaxBoostLen == 2

BoostTexts == TextsUpTo(LevAlphabet, MaxBoostLen)
Bonuses == {Ratio(0, 1), Ratio(1, 2), Ratio(1, 1)}
Boosts == [ignore_case : BOOLEAN, same_start_bonus : Bonuses, other : Metrics]

BoostInit ==
    /\ op = "start"
    /\ \E self \in Boosts, option \in BoostTexts, input \in BoostTexts :
          bst = [self |-> self, option |-> option, input |-> input,
                 base |-> NaN, result |-> NaN]
    /\ CapIdle /\ LevIdle /\ SortIdle /\ MoveIdle /\ InputsIdle /\ TmpIdle /\ BitsIdle
    /\ TruncIdle /\ ChunkIdle /\ ConvIdle

BoostDistance ==
    /\ op = "start"
    /\ bst' = [bst EXCEPT !.base = other_distance(bst.self.other, bst.option, bst.input),
                          !.result = boost_distance(bst.self, bst.option, bst.input)]
    /\ op' = "boost_distance"
    /\ UNCHANGED restBoost

BoostNext == BoostDistance

SpecBoost == BoostInit /\ [][BoostNext]_vars

--------------------------------------------------------------------------
(* move_file (src/io.rs)                                                   *)
(*                                                                         *)
(* The filesystem holds three paths: file, the directory dst and           *)
(* dst/<name of file>, the path the file is moved to.  An entry is         *)
(* missing, a regular file with a content, or a directory.                 *)

MaxContent == 2

Contents == 1..MaxContent
Missing == [kind |-> "missing", content |-> 0]
Dir == [kind |-> "dir", content |-> 0]
RegularFile(content) == [kind |-> "file", content |-> content]
Entries == {Missing, Dir} \cup {RegularFile(c) : c \in Contents}

\* the filesystems move_file may be called on: below a dst that is not a
\* directory there is nothing
FileSystems ==
    {fs \in [file : Entries, dst : Entries, target : Entries] :
        fs.dst.kind # "dir" => fs.target = Missing}

\* std::io::Result and Result<(), MoveError>
Ok(v) == [ok |-> TRUE, v |-> v, err |-> "none"]
Err(e) == [ok |-> FALSE, v |-> FALSE, err |-> e]

\* tokio::fs::try_exists
try_exists(entry) == Ok(entry.kind # "missing")

\* tokio::fs::metadata: is_dir and is_file of an entry that exists
metadata(entry) ==
    IF entry.kind = "missing" THEN Err("NotFound")
    ELSE Ok([is_dir |-> entry.kind = "dir", is_file |-> entry.kind = "file"])

\* From<IoError> for MoveError
MoveError_from(kind) == IF kind = "NotFound" THEN "FileNotFound" ELSE "OtherIO"

\* tokio::fs::rename(file, dst/<name>): the result and the filesystem after
\* it; cross_device says that the two paths lie on different devices
fs_rename(fs, cross_device) ==
    CASE fs.file.kind = "missing" \/ fs.dst.kind = "missing" ->
            [res |-> Err("NotFound"), fs |-> fs]
      [] fs.file.kind # "missing" /\ fs.dst.kind = "file" ->
            [res |-> Err("NotADirectory"), fs |-> fs]
      [] fs.file.kind # "missing" /\ fs.dst.kind = "dir" /\ cross_device ->
            [res |-> Err("CrossesDevices"), fs |-> fs]
      [] fs.file.kind = "file" /\ fs.dst.kind = "dir" /\ ~cross_device
            /\ fs.target.kind = "dir" ->
            [res |-> Err("IsADirectory"), fs |-> fs]
      [] fs.file.kind = "dir" /\ fs.dst.kind = "dir" /\ ~cross_device
            /\ fs.target.kind = "file" ->
            [res |-> Err("NotADirectory"), fs |-> fs]
      [] OTHER ->
            [res |-> Ok(TRUE), fs |-> [fs EXCEPT !.file = Missing, !.target = fs.file]]

\* tokio::fs::copy(file, dst/<name>)
fs_copy(fs) ==
    CASE fs.file.kind = "missing" \/ fs.dst.kind = "missing" ->
            [res |-> Err("NotFound"), fs |-> fs]
      [] fs.file.kind = "dir" -> [res |-> Err("InvalidInput"), fs |-> fs]
      [] fs.file.kind = "file" /\ fs.dst.kind = "file" ->
            [res |-> Err("NotADirectory"), fs |-> fs]
      [] fs.file.kind = "file" /\ fs.dst.kind = "dir" /\ fs.target.kind = "dir" ->
            [res |-> Err("IsADirectory"), fs |-> fs]
      [] OTHER -> [res |-> Ok(TRUE), fs |-> [fs EXCEPT !.target = fs.file]]

\* tokio::fs::remove_file(file)
fs_remove_file(fs) ==
    CASE fs.file.kind = "missing" -> [res |-> Err("NotFound"), fs |-> fs]
      [] fs.file.kind = "dir" -> [res |-> Err("IsADirectory"), fs |-> fs]
      [] OTHER -> [res |-> Ok(TRUE), fs |-> [fs EXCEPT !.file = Missing]]

\* the fallback of inner_move_file: copy, then remove the old file
copy_and_remove(fs) ==
    LET copied == fs_copy(fs)
    IN  IF ~copied.res.ok
        THEN [res |-> Err(MoveError_from(copied.res.err)), fs |-> copied.fs]
        ELSE LET removed == fs_remove_file(copied.fs)
             IN  IF ~removed.res.ok
                 THEN [res |-> Err(MoveError_from(removed.res.err)), fs |-> removed.fs]
                 ELSE [res |-> Ok(TRUE), fs |-> removed.fs]

\* inner_move_file: the result and the filesystem after it.  In both
\* checks metadata(dst) is only read when try_exists gave false.
inner_move_file(fs, dry_run, cross_device) ==
    LET dst_exists == try_exists(fs.dst).v
        file_exists == try_exists(fs.file).v
        dst_meta == metadata(fs.dst)
    IN  IF ~dst_exists /\ ~dst_meta.ok
        THEN [res |-> Err(MoveError_from(dst_meta.err)), fs |-> fs]
        ELSE IF ~dst_exists /\ dst_meta.v.is_dir
        THEN [res |-> Err("TargetNotFound"), fs |-> fs]
        ELSE IF ~file_exists /\ ~dst_meta.ok
        THEN [res |-> Err(MoveError_from(dst_meta.err)), fs |-> fs]
        ELSE IF ~file_exists /\ dst_meta.v.is_file
        THEN [res |-> Err("FileNotFound"), fs |-> fs]
        ELSE IF dry_run
        THEN [res |-> Ok(TRUE), fs |-> fs]
        ELSE LET renamed == fs_rename(fs, cross_device)
             IN  IF renamed.res.ok THEN renamed ELSE copy_and_remove(renamed.fs)

\* move_file
move_file(fs, dry_run, cross_device) == inner_move_file(fs, dry_run, cross_device)

--------------------------------------------------------------------------
(* The move_file state machine: a filesystem and the flag are chosen, then *)
(* move_file(file, dst, dry_run) is called.                                *)

MoveInit ==
    /\ op = "start"
    /\ \E fs \in FileSystems, dry_run \in BOOLEAN, cross_device \in BOOLEAN :
          mv = [before |-> fs, fs |-> fs, dry_run |-> dry_run,
                cross_device |-> cross_device, result |-> Ok(TRUE)]
    /\ CapIdle /\ LevIdle /\ SortIdle /\ BoostIdle /\ InputsIdle /\ TmpIdle /\ BitsIdle
    /\ TruncIdle /\ ChunkIdle /\ ConvIdle

MoveFile ==
    /\ op = "start"
    /\ LET moved == move_file(mv.fs, mv.dry_run, mv.cross_device)
       IN  mv' = [mv EXCEPT !.fs = moved.fs, !.result = moved.res]
    /\ op' = "move_file"
    /\ UNCHANGED restMove

MoveNext == MoveFile

SpecMove == MoveInit /\ [][MoveNext]_vars

--------------------------------------------------------------------------
(* Inputs (src/lib.rs, args::input)                                        *)

\* the value of trys when none is given
DefaultTrys == 3

\* Inputs::new
Inputs_new(bools, trys) ==
    [yes |-> IsSome(bools),
     no |-> IsSome(bools) /\ ~Unwrap(bools),
     trys |-> IF IsSome(trys) THEN Unwrap(trys) ELSE DefaultTrys]

\* the closure ask_consent maps a line with
consent_map(it) ==
    IF it \in {"y", "yes", "j", "ja"} THEN Some(TRUE)
    ELSE IF it \in {"n", "no", "nein"} THEN Some(FALSE)
    ELSE None

\* text_io::read!("{}\n"): the next line of stdin, the empty line once
\* stdin is at its end
read_line(stdin) == IF stdin = <<>> THEN "" ELSE Head(stdin)
rest_of(stdin) == IF stdin = <<>> THEN <<>> ELSE Tail(stdin)

\* Inputs::inner_read with no default, for a range `trys` of the given
\* length: the value, the number of lines read and what is left on stdin
RECURSIVE inner_read(_, _, _)
inner_read(stdin, trys, reads) ==
    IF trys = 0 THEN [value |-> None, reads |-> reads, stdin |-> stdin]
    ELSE LET t == consent_map(read_line(stdin))
         IN  IF IsSome(t)
             THEN [value |-> t, reads |-> reads + 1, stdin |-> rest_of(stdin)]
             ELSE inner_read(rest_of(stdin), trys - 1, reads + 1)

\* Inputs::try_read: the range is 1..self.trys
try_read(self, stdin) ==
    inner_read(stdin, IF self.trys >= 1 THEN self.trys - 1 ELSE 0, 0)

\* Inputs::ask_consent: the answer, the number of lines read and what is
\* left on stdin
ask_consent(self, stdin) ==
    IF self.yes \/ self.no
    THEN [answer |-> self.yes, reads |-> 0, stdin |-> stdin]
    ELSE LET r == try_read(self, stdin)
         IN  [answer |-> IF IsSome(r.value) THEN Unwrap(r.value) ELSE FALSE,
              reads |-> r.reads, stdin |-> r.stdin]

--------------------------------------------------------------------------
(* The Inputs state machine: the arguments of Inputs::new and the lines on *)
(* stdin are chosen, the value is built and ask_consent is called on it.   *)

MaxLines == 2
MaxTrys == 3

Lines == {"y", "yes", "j", "ja", "n", "no", "nein", "x", ""}
Stdins == UNION {[1..n -> Lines] : n \in 0..MaxLines}
OptionBools == {None, Some(TRUE), Some(FALSE)}
OptionTrys == {None} \cup {Some(t) : t \in 0..MaxTrys}

InputsInit ==
    /\ op = "start"
    /\ \E bools \in OptionBools, trys \in OptionTrys, stdin \in Stdins :
          inp = [bools |-> bools, self |-> Inputs_new(bools, trys), stdin |-> stdin,
                 answer |-> FALSE, reads |-> 0]
    /\ CapIdle /\ LevIdle /\ SortIdle /\ BoostIdle /\ MoveIdle /\ TmpIdle /\ BitsIdle
    /\ TruncIdle /\ ChunkIdle /\ ConvIdle

AskConsent ==
    /\ op = "start"
    /\ LET r == ask_consent(inp.self, inp.stdin)
       IN  inp' = [inp EXCEPT !.answer = r.answer, !.reads = r.reads, !.stdin = r.stdin]
    /\ op' = "ask_consent"
    /\ UNCHANGED restInputs

InputsNext == AskConsent

SpecInputs == InputsInit /\ [][InputsNext]_vars

--------------------------------------------------------------------------
(* TmpFile (src/io.rs)                                                     *)
(*                                                                         *)
(* Here the filesystem is a function from the paths to their entries.      *)

Paths == {"a", "b", "c"}
EmptyFile == [kind |-> "file", content |-> 0]
TmpFileSystems == [Paths -> Entries]

\* TmpFile::new
TmpFile_new(path) == [path |-> path, is_removed |-> FALSE]

\* the test both constructors start with: Err(AlreadyExists) when
\* std::fs::metadata(&path) is Ok
check_free(fs, path) ==
    IF metadata(fs[path]).ok THEN Err("AlreadyExists") ELSE Ok(TRUE)

\* std::fs::copy(orig, &path)
std_fs_copy(fs, orig, path) ==
    CASE fs[orig].kind = "missing" -> [res |-> Err("NotFound"), fs |-> fs]
      [] fs[orig].kind = "dir" -> [res |-> Err("InvalidInput"), fs |-> fs]
      [] OTHER -> [res |-> Ok(TRUE), fs |-> [fs EXCEPT ![path] = fs[orig]]]

\* std::fs::remove_file(&path)
std_fs_remove_file(fs, path) ==
    CASE fs[path].kind = "missing" -> [res |-> Err("NotFound"), fs |-> fs]
      [] fs[path].kind = "dir" -> [res |-> Err("IsADirectory"), fs |-> fs]
      [] OTHER -> [res |-> Ok(TRUE), fs |-> [fs EXCEPT ![path] = Missing]]

\* TmpFile::new_copy: the result, the value and the filesystem after it
new_copy(fs, path, orig) ==
    IF ~check_free(fs, path).ok
    THEN [res |-> check_free(fs, path), self |-> None, fs |-> fs]
    ELSE LET copied == std_fs_copy(fs, orig, path)
         IN  IF ~copied.res.ok THEN [res |-> copied.res, self |-> None, fs |-> copied.fs]
             ELSE [res |-> Ok(TRUE), self |-> Some(TmpFile_new(path)), fs |-> copied.fs]

\* TmpFile::new_empty
new_empty(fs, path) ==
    IF ~check_free(fs, path).ok
    THEN [res |-> check_free(fs, path), self |-> None, fs |-> fs]
    ELSE [res |-> Ok(TRUE), self |-> Some(TmpFile_new(path)),
          fs |-> [fs EXCEPT ![path] = EmptyFile]]

\* TmpFile::was_removed
was_removed(self) == [self EXCEPT !.is_removed = TRUE]

\* remove without the test of is_removed
remove_unconditional(self, fs) ==
    LET removed == std_fs_remove_file(fs, self.path)
    IN  IF ~removed.res.ok
        THEN [res |-> removed.res, self |-> self, fs |-> removed.fs, calls |-> 1]
        ELSE [res |-> Ok(TRUE), self |-> was_removed(self), fs |-> removed.fs, calls |-> 1]

\* TmpFile::remove: the result, the value, the filesystem after it and the
\* number of calls of std::fs::remove_file it made
remove(self, fs) ==
    IF ~self.is_removed
    THEN LET removed == std_fs_remove_file(fs, self.path)
         IN  IF ~removed.res.ok
             THEN [res |-> removed.res, self |-> self, fs |-> removed.fs, calls |-> 1]
             ELSE [res |-> Ok(TRUE), self |-> was_removed(self), fs |-> removed.fs,
                   calls |-> 1]
    ELSE [res |-> Ok(TRUE), self |-> self, fs |-> fs, calls |-> 0]

--------------------------------------------------------------------------
(* The TmpFile state machine: a TmpFile is created on some filesystem;     *)
(* while it lives its file may be removed by someone else and was_removed  *)
(* may be called; at the end it is dropped.                                *)

Alive == op \in {"new_copy", "new_empty", "was_removed", "removed_elsewhere"}

TmpInit ==
    /\ op = "start"
    /\ \E fs \in TmpFileSystems :
          tmp = [fs |-> fs, self |-> None, res |-> Ok(TRUE), remove_calls |-> 0,
                 panicked |-> FALSE]
    /\ CapIdle /\ LevIdle /\ SortIdle /\ BoostIdle /\ MoveIdle /\ InputsIdle /\ BitsIdle
    /\ TruncIdle /\ ChunkIdle /\ ConvIdle

NewCopy ==
    /\ op = "start"
    /\ \E path \in Paths, orig \in Paths :
          LET r == new_copy(tmp.fs, path, orig)
          IN  /\ tmp' = [tmp EXCEPT !.fs = r.fs, !.self = r.self, !.res = r.res]
              /\ op' = IF r.res.ok THEN "new_copy" ELSE "failed"
    /\ UNCHANGED restTmp

NewEmpty ==
    /\ op = "start"
    /\ \E path \in Paths :
          LET r == new_empty(tmp.fs, path)
          IN  /\ tmp' = [tmp EXCEPT !.fs = r.fs, !.self = r.self, !.res = r.res]
              /\ op' = IF r.res.ok THEN "new_empty" ELSE "failed"
    /\ UNCHANGED restTmp

WasRemoved ==
    /\ Alive
    /\ ~Unwrap(tmp.self).is_removed
    /\ tmp' = [tmp EXCEPT !.self = Some(was_removed(Unwrap(tmp.self)))]
    /\ op' = "was_removed"
    /\ UNCHANGED restTmp

\* the file is removed by someone who holds its path (as_ref)
RemovedElsewhere ==
    /\ Alive
    /\ tmp.fs[Unwrap(tmp.self).path] # Missing
    /\ tmp' = [tmp EXCEPT !.fs = std_fs_remove_file(tmp.fs, Unwrap(tmp.self).path).fs]
    /\ op' = "removed_elsewhere"
    /\ UNCHANGED restTmp

\* Drop for TmpFile: self.remove().unwrap()
Drop ==
    /\ Alive
    /\ LET r == remove(Unwrap(tmp.self), tmp.fs)
       IN  tmp' = [tmp EXCEPT !.fs = r.fs, !.self = Some(r.self), !.res = r.res,
                              !.remove_calls = tmp.remove_calls + r.calls,
                              !.panicked = ~r.res.ok]
    /\ op' = "drop"
    /\ UNCHANGED restTmp

TmpNext == NewCopy \/ NewEmpty \/ WasRemoved \/ RemovedElsewhere \/ Drop

SpecTmp == TmpInit /\ [][TmpNext]_vars

--------------------------------------------------------------------------
(* BitSet (src/collections/bit_set.rs)                                     *)
(*                                                                         *)
(* bytes is the array of the BitSet, little endian: a sequence of BYTES    *)
(* numbers below 256.                                                      *)

\* u8::count_ones
RECURSIVE count_ones(_)
count_ones(byte) == IF byte = 0 THEN 0 ELSE (byte % 2) + count_ones(byte \div 2)

\* BitSet::count: the loop of const_for from byte i on
RECURSIVE count_from(_, _)
count_from(bytes, i) ==
    IF i >= Len(bytes) THEN 0
    ELSE count_ones(bytes[i + 1]) + count_from(bytes, i + 1)

count(bytes) == count_from(bytes, 0)

\* BitSet::all: the loop of const_for from byte i on
RECURSIVE all_from(_, _)
all_from(bytes, i) ==
    IF i >= Len(bytes) THEN TRUE
    ELSE IF bytes[i + 1] = 255 THEN FALSE
    ELSE all_from(bytes, i + 1)

all(bytes) == all_from(bytes, 0)

\* BitSet::any: the loop of const_for from byte i on
RECURSIVE any_from(_, _)
any_from(bytes, i) ==
    IF i >= Len(bytes) THEN FALSE
    ELSE IF bytes[i + 1] > 0 THEN TRUE
    ELSE any_from(bytes, i + 1)

any(bytes) == any_from(bytes, 0)

\* BitSet::none
none(bytes) == ~any(bytes)

\* u8 ^ u8 and u8 & u8, bit by bit from the lowest
RECURSIVE u8_xor(_, _)
u8_xor(x, y) ==
    IF x = 0 /\ y = 0 THEN 0
    ELSE ((x + y) % 2) + 2 * u8_xor(x \div 2, y \div 2)

RECURSIVE u8_and(_, _)
u8_and(x, y) ==
    IF x = 0 \/ y = 0 THEN 0
    ELSE ((x % 2) * (y % 2)) + 2 * u8_and(x \div 2, y \div 2)

\* u8 << n for n < 8: the bits shifted beyond the eighth are lost
u8_shl(x, n) == (x * 2^n) % 256

\* BitSet::is_in_bounds
is_in_bounds(bytes, index) == index <= Len(bytes) * 8

\* BitSet::split_index, when its assertion holds
split_index(index) == [bit_index |-> index % 8, byte_index |-> index \div 8]

\* get, flip and set panic when the assertion of split_index fails and when
\* byte_index is not an index of bytes
index_panics(bytes, index) ==
    \/ ~is_in_bounds(bytes, index)
    \/ split_index(index).byte_index >= Len(bytes)

\* BitSet::get
get(bytes, index) ==
    LET i == split_index(index)
    IN  u8_and(bytes[i.byte_index + 1], u8_shl(1, i.bit_index)) # 0

\* BitSet::flip
flip(bytes, index) ==
    LET i == split_index(index)
    IN  [bytes EXCEPT ![i.byte_index + 1] = u8_xor(@, u8_shl(1, i.bit_index))]

\* a set that only ever turns a bit on
set_or(bytes, index, value) ==
    LET i == split_index(index)
    IN  [bytes EXCEPT ![i.byte_index + 1] =
            u8_xor(@, u8_shl(as_usize(value /\ ~get(bytes, index)), i.bit_index))]

\* BitSet::set (USE_ALTERNATIVE is true)
set(bytes, index, value) ==
    LET i == split_index(index)
    IN  [bytes EXCEPT ![i.byte_index + 1] =
            u8_xor(@, u8_shl(as_usize(value # get(bytes, index)), i.bit_index))]

\* slice::rotate_right(k) for k <= len: the element at i moves to i + k,
\* those that leave at the end come back at the start
rotate_right(bytes, k) ==
    [i \in 1..Len(bytes) |-> bytes[((i - 1 - k) % Len(bytes)) + 1]]

\* a loop that clears nothing
clear_none(bytes, s_bytes) == bytes

\* shl: for i in 0..s_bytes { self.bytes[i] = 0 }
clear_low(bytes, s_bytes) ==
    [i \in 1..Len(bytes) |-> IF i - 1 < s_bytes THEN 0 ELSE bytes[i]]

\* shl: the bits of old from the i-th on, paired with rhs + i.., while the
\* second is below BYTES * 8; self.set(_, true) for the bits that are set
RECURSIVE shl_bits(_, _, _, _)
shl_bits(old, self, rhs, i) ==
    IF i >= Len(old) * 8 \/ rhs + i >= Len(old) * 8 THEN self
    ELSE IF get(old, i) THEN shl_bits(old, set(self, rhs + i, TRUE), rhs, i + 1)
    ELSE shl_bits(old, self, rhs, i + 1)

\* BitSet::default
BitSet_default(BYTES) == [i \in 1..BYTES |-> 0]

\* <BitSet as Shl<usize>>::shl, for BYTES # 1 or rhs < 8
shl(bytes, rhs) ==
    IF Len(bytes) = 1 THEN <<u8_shl(bytes[1], rhs)>>
    ELSE IF rhs = 0 THEN bytes
    ELSE LET s == split_index(rhs)
         IN  IF s.bit_index = 0
             THEN clear_low(rotate_right(bytes, s.byte_index), s.byte_index)
             ELSE shl_bits(bytes, BitSet_default(Len(bytes)), rhs, 0)

--------------------------------------------------------------------------
(* The BitSet state machine: a BitSet of some size is chosen, then one of  *)
(* its queries is called, or a bit is set or flipped and then read.        *)

MaxBytes == 2

\* the bytes the sets of the model are made of: 0x00, 0x01, 0x80, 0xAA,
\* 0xFE and 0xFF
ByteValues == {0, 1, 128, 170, 254, 255}
\* and the set of tests::shift, 0b1111_1111_1100_0001
BitSets == UNION {[1..n -> ByteValues] : n \in 0..MaxBytes} \cup {<<193, 255>>}

BitsInit ==
    /\ op = "start"
    /\ \E bytes \in BitSets :
          bits = [bytes |-> bytes, count |-> 0, flag |-> FALSE, index |-> 0, value |-> FALSE]
    /\ CapIdle /\ LevIdle /\ SortIdle /\ BoostIdle /\ MoveIdle /\ InputsIdle /\ TmpIdle
    /\ TruncIdle /\ ChunkIdle /\ ConvIdle

BitsCount ==
    /\ op = "start"
    /\ bits' = [bits EXCEPT !.count = count(bits.bytes)]
    /\ op' = "count"
    /\ UNCHANGED restBits

BitsAll ==
    /\ op = "start"
    /\ bits' = [bits EXCEPT !.flag = all(bits.bytes)]
    /\ op' = "all"
    /\ UNCHANGED restBits

BitsAny ==
    /\ op = "start"
    /\ bits' = [bits EXCEPT !.flag = any(bits.bytes)]
    /\ op' = "any"
    /\ UNCHANGED restBits

BitsNone ==
    /\ op = "start"
    /\ bits' = [bits EXCEPT !.flag = none(bits.bytes)]
    /\ op' = "none"
    /\ UNCHANGED restBits

\* the indices handed to get, flip and set: those of the bits, and the two
\* beyond them
Indices(bytes) == 0..(8 * Len(bytes) + 1)

BitsSet ==
    /\ op = "start"
    /\ \E index \in Indices(bits.bytes), value \in BOOLEAN :
          IF index_panics(bits.bytes, index)
          THEN /\ bits' = [bits EXCEPT !.index = index, !.value = value]
               /\ op' = "panic"
          ELSE /\ bits' = [bits EXCEPT !.bytes = set(bits.bytes, index, value),
                                       !.index = index, !.value = value]
               /\ op' = "set"
    /\ UNCHANGED restBits

BitsFlip ==
    /\ op = "start"
    /\ \E index \in Indices(bits.bytes) :
          IF index_panics(bits.bytes, index)
          THEN /\ bits' = [bits EXCEPT !.index = index]
               /\ op' = "panic"
          ELSE /\ bits' = [bits EXCEPT !.bytes = flip(bits.bytes, index), !.index = index]
               /\ op' = "flip"
    /\ UNCHANGED restBits

BitsGet ==
    /\ op \in {"start", "set", "flip"}
    /\ \E index \in Indices(bits.bytes) :
          IF index_panics(bits.bytes, index)
          THEN /\ bits' = [bits EXCEPT !.index = index]
               /\ op' = "panic"
          ELSE /\ bits' = [bits EXCEPT !.flag = get(bits.bytes, index), !.index = index]
               /\ op' = "get"
    /\ UNCHANGED restBits

\* set << rhs.  With BYTES = 1 and rhs = 8 the shift of the u8 overflows:
\* a build with overflow checks panics, one without shifts by rhs & 7
BitsShl ==
    /\ op = "start"
    /\ \E rhs \in 0..(8 * Len(bits.bytes)) :
          IF Len(bits.bytes) = 1 /\ rhs >= 8
          THEN \/ /\ bits' = [bits EXCEPT !.index = rhs]
                  /\ op' = "panic"
               \/ /\ bits' = [bits EXCEPT !.bytes = shl(bits.bytes, rhs % 8), !.index = rhs]
                  /\ op' = "shl"
          ELSE /\ bits' = [bits EXCEPT !.bytes = shl(bits.bytes, rhs), !.index = rhs]
               /\ op' = "shl"
    /\ UNCHANGED restBits

BitsNext ==
    \/ BitsCount \/ BitsAll \/ BitsAny \/ BitsNone
    \/ BitsSet \/ BitsFlip \/ BitsGet \/ BitsShl

SpecBits == BitsInit /\ [][BitsNext]_vars

--------------------------------------------------------------------------
(* ArrayNPM (src/lib.rs, collections) and truncate_last_lines (src/io.rs)  *)

\* ArrayNPM::<N, M, T>::from_fn(|_| v)
ArrayNPM_from_fn(N, M, v) == [a |-> [i \in 1..N |-> v], b |-> [i \in 1..M |-> v]]

\* ArrayNPM::to_index
to_index(arr, idx) ==
    IF idx < Len(arr.a) THEN [kind |-> "First", idx |-> idx]
    ELSE IF idx < Len(arr.a) + Len(arr.b) THEN [kind |-> "Second", idx |-> idx - Len(arr.a)]
    ELSE [kind |-> "panic", idx |-> idx]

\* Index for ArrayNPM (to_index panics when idx is out of bounds; the
\* pointer of truncate_last_lines stays below N + 1)
ArrayNPM_index(arr, idx) ==
    LET at == to_index(arr, idx)
    IN  IF at.kind = "First" THEN arr.a[at.idx + 1] ELSE arr.b[at.idx + 1]

\* IndexMut for ArrayNPM, followed by the assignment of v
ArrayNPM_index_mut(arr, idx, v) ==
    LET at == to_index(arr, idx)
    IN  IF at.kind = "First" THEN [arr EXCEPT !.a[at.idx + 1] = v]
        ELSE [arr EXCEPT !.b[at.idx + 1] = v]

\* the size of the read buffer
BufLen == 64

new_line == "\n"

\* the for loop of truncate_last_lines over buf[0..bytes_read], zipped with
\* offset..(offset + bytes_read) and filtered for new_line: j is the number
\* of bytes of the buffer already looked at
RECURSIVE scan_buf(_, _, _, _, _, _)
scan_buf(buf, j, offset, last, pointer, N) ==
    IF j >= Len(buf) THEN [last |-> last, pointer |-> pointer]
    ELSE IF buf[j + 1] = new_line
         THEN scan_buf(buf, j + 1, offset,
                       ArrayNPM_index_mut(last, pointer, Some(offset + j)),
                       (pointer + 1) % (N + 1), N)
         ELSE scan_buf(buf, j + 1, offset, last, pointer, N)

\* tokio::fs::File::set_len on the bytes of the file
set_len(bytes, len) ==
    IF len <= Len(bytes) THEN SubSeq(bytes, 1, len)
    ELSE bytes \o [i \in 1..(len - Len(bytes)) |-> "\\0"]

\* write_all at the cursor
write_all(bytes, pos, written) ==
    SubSeq(bytes, 1, pos) \o written
        \o SubSeq(bytes, pos + Len(written) + 1, Len(bytes))

\* the end of truncate_last_lines that cuts at the newline itself
truncate_end_before_newline(last, pointer, bytes) ==
    IF IsSome(ArrayNPM_index(last, pointer))
    THEN set_len(bytes, Unwrap(ArrayNPM_index(last, pointer)))
    ELSE write_all(set_len(bytes, 0), 0, <<new_line>>)

\* the end of truncate_last_lines, after read returned 0: the bytes of
\* the file it leaves
truncate_end(last, pointer, bytes) ==
    IF IsSome(ArrayNPM_index(last, pointer))
    THEN set_len(bytes, Unwrap(ArrayNPM_index(last, pointer)) + 1)
    ELSE write_all(set_len(bytes, 0), 0, <<new_line>>)

--------------------------------------------------------------------------
(* The truncate_last_lines state machine: a file of newline-terminated     *)
(* lines, opened at its start, and N are chosen; every read returns some   *)
(* of the bytes that are left, at most BufLen of them, and when it returns *)
(* 0 the file is cut.                                                      *)

MaxFileLines == 3
MaxN == 3

\* the lengths of the lines, without their newline
LineLens == {0, 3, BufLen}
\* what a read may return when more bytes are left
ReadSizes == {1, 7, BufLen}

Line(len) == [i \in 1..len |-> "x"] \o <<new_line>>

RECURSIVE FileOf(_)
FileOf(lens) == IF lens = <<>> THEN <<>> ELSE Line(Head(lens)) \o FileOf(Tail(lens))

TruncInit ==
    /\ op = "start"
    /\ \E k \in 0..MaxFileLines, N \in 0..MaxN :
          \E lens \in [1..k -> LineLens] :
             trl = [N |-> N, lens |-> lens, file |-> FileOf(lens), pos |-> 0,
                    offset |-> 0, last |-> ArrayNPM_from_fn(N, 1, None), pointer |-> 0]
    /\ CapIdle /\ LevIdle /\ SortIdle /\ BoostIdle /\ MoveIdle /\ InputsIdle /\ TmpIdle
    /\ BitsIdle /\ ChunkIdle /\ ConvIdle

\* one turn of the loop in which file.read returns bytes_read > 0
TruncRead ==
    /\ op \in {"start", "read"}
    /\ trl.pos < Len(trl.file)
    /\ \E size \in ReadSizes :
          LET bytes_read == Min(Min(size, BufLen), Len(trl.file) - trl.pos)
              buf == SubSeq(trl.file, trl.pos + 1, trl.pos + bytes_read)
              scanned == scan_buf(buf, 0, trl.offset, trl.last, trl.pointer, trl.N)
          IN  trl' = [trl EXCEPT !.pos = trl.pos + bytes_read,
                                 !.offset = trl.offset + bytes_read,
                                 !.last = scanned.last,
                                 !.pointer = scanned.pointer]
    /\ op' = "read"
    /\ UNCHANGED restTrunc

\* file.read returns 0 at the end of the file: the loop breaks and the
\* file is cut
TruncEnd ==
    /\ op \in {"start", "read"}
    /\ trl.pos = Len(trl.file)
    /\ trl' = [trl EXCEPT !.file = truncate_end(trl.last, trl.pointer, trl.file)]
    /\ op' = "truncate_last_lines"
    /\ UNCHANGED restTrunc

TruncNext == TruncRead \/ TruncEnd

SpecTrunc == TruncInit /\ [][TruncNext]_vars

--------------------------------------------------------------------------
(* ChunkedIterator (src/extensions/iter.rs)                                *)

\* ChunkedIterator::new; iter is what the wrapped iterator still yields
ChunkedIterator_new(iter, window_size, hop_length) ==
    [iter |-> iter, window_size |-> window_size, hop_length |-> hop_length,
     buffer |-> <<>>]

\* the while loop of next: the buffer is filled up to window_size
RECURSIVE fill_buffer(_)
fill_buffer(self) ==
    IF Len(self.buffer) < self.window_size /\ self.iter # <<>>
    THEN fill_buffer([self EXCEPT !.buffer = Append(self.buffer, Head(self.iter)),
                                  !.iter = Tail(self.iter)])
    ELSE self

\* Vec::drain(..n) on the buffer
drain(buffer, n) == SubSeq(buffer, n + 1, Len(buffer))

\* <ChunkedIterator as Iterator>::next: the item and the iterator after it
chunked_next(self) ==
    LET filled == fill_buffer(self)
    IN  IF filled.buffer = <<>> THEN [item |-> None, self |-> filled]
        ELSE [item |-> Some(filled.buffer),
              self |-> [filled EXCEPT !.buffer =
                            drain(filled.buffer,
                                  Min(filled.hop_length, Len(filled.buffer)))]]

--------------------------------------------------------------------------
(* The chunked state machine: a source 0..n, a window size and a hop       *)
(* length are chosen, then next is called until it returns None.           *)

MaxSource == 6
MaxWindow == 3
MaxHop == 3

\* the range 0..n as a sequence
Range(n) == [i \in 1..n |-> i - 1]

\* (n, window_size, hop_length); the last one is that of chunked_test
ChunkInputs ==
    ((0..MaxSource) \X (1..MaxWindow) \X (1..MaxHop)) \cup {<<15, 6, 4>>}

ChunkInit ==
    /\ op = "start"
    /\ \E in \in ChunkInputs :
          chk = [n |-> in[1],
                 self |-> ChunkedIterator_new(Range(in[1]), in[2], in[3]),
                 chunks |-> <<>>]
    /\ CapIdle /\ LevIdle /\ SortIdle /\ BoostIdle /\ MoveIdle /\ InputsIdle /\ TmpIdle
    /\ BitsIdle /\ TruncIdle /\ ConvIdle

\* a call of next
ChunkedNext ==
    /\ op \in {"start", "next"}
    /\ LET r == chunked_next(chk.self)
       IN  /\ chk' = [chk EXCEPT !.self = r.self,
                                 !.chunks = IF IsSome(r.item)
                                            THEN Append(chk.chunks, Unwrap(r.item))
                                            ELSE chk.chunks]
           /\ op' = IF IsSome(r.item) THEN "next" ELSE "end"
    /\ UNCHANGED restChunk

ChunkNext == ChunkedNext

SpecChunk == ChunkInit /\ [][ChunkNext]_vars

--------------------------------------------------------------------------
(* The Case::convert state machine: a case and a list of words are chosen  *)
(* and Case::convert is called on them.                                    *)

\* most words handed to Case::convert
MaxWords == 2
\* longest generated word
MaxWordLen == 2

\* the words: borrowed or owned texts of the letters a and B, and a word
\* that starts with a character of two bytes
WordTexts == TextsUpTo({"a", "B"}, MaxWordLen) \cup {<<"é">>}
CowWords == {Borrowed(t) : t \in WordTexts} \cup {Owned(t) : t \in WordTexts}

ConvInit ==
    /\ op = "start"
    /\ \E case \in Cases, words \in SeqsUpTo(CowWords, MaxWords) :
          cnv = [case |-> case, words |-> words, out |-> <<>>, changed |-> FALSE]
    /\ CapIdle /\ LevIdle /\ SortIdle /\ BoostIdle /\ MoveIdle /\ InputsIdle /\ TmpIdle
    /\ BitsIdle /\ TruncIdle /\ ChunkIdle

Convert ==
    /\ op = "start"
    /\ IF Case_convert_panics(cnv.case, cnv.words)
       THEN /\ cnv' = cnv
            /\ op' = "panic"
       ELSE /\ LET r == Case_convert(cnv.case, cnv.words)
               IN  cnv' = [cnv EXCEPT !.out = r.words, !.changed = r.changed]
            /\ op' = "convert"
    /\ UNCHANGED restConv

ConvNext == Convert

SpecConvert == ConvInit /\ [][ConvNext]_vars

--------------------------------------------------------------------------
(* Properties of CapitalizedString, checked under SpecCap *)

texts(words) == [i \in 1..Len(words) |-> words[i].s]
AllBorrowed(words) == \A i \in 1..Len(words) : ~words[i].owned
HasUpper(text) == \E i \in 1..Len(text) : is_uppercase(text[i])
Built == op \in {"new", "try_from", "change_case"} /\ cs.ok

\* a step of ChangeCase (the only action that sets op to "change_case")
ChangeCaseStep == op' = "change_case"

\* C1: whenever original_data is present, joining the words with the
\* separator of the current case (the empty string when there is none)
\* gives original_data, in every state reached from new or try_from by
\* change_case calls.
C1_OriginalIsJoinedWords ==
    (Built /\ IsSome(cs.v.original_data))
        => join(cs.v.words, seperator(cs.v.case)) = Unwrap(cs.v.original_data)

\* what C2 expects of a word at position i under the target case
C2_ExpectedWord(case, i, s) ==
    LET wc == IF case.kind = "Camel"
              THEN (IF i = 1 THEN Some(Lower) ELSE Some(Capitalized))
              ELSE case.case
    IN  IF ~IsSome(wc) \/ s = <<>> THEN s
        ELSE CASE Unwrap(wc) = Lower -> to_lowercase(s)
               [] Unwrap(wc) = Upper -> to_uppercase(s)
               [] Unwrap(wc) = Capitalized ->
                    <<char_to_uppercase(s[1])>> \o to_lowercase(Tail(s))

C2_ExpectedText(case, words) ==
    join([i \in 1..Len(words) |-> Borrowed(C2_ExpectedWord(case, i, words[i].s))],
         seperator(case))

\* C2: after change_case(C) the rendered text is the words as they were
\* before the call, each converted as C asks (Camel: first word Lower, later
\* words Capitalized; Other: every word in C's word case, untouched when it
\* has none), joined with C's separator.
C2_RenderIsConvertedJoin ==
    [][(ChangeCaseStep /\ cs'.v.case # cs.v.case)
        => to_string(cs'.v) = C2_ExpectedText(cs'.v.case, cs.v.words)]_vars

FoundDelimiters == {c \in {" ", "-", "_"} : \E i \in 1..Len(data) : data[i] = c}

\* C3: try_from fails exactly when the text holds two or more distinct
\* characters of {space, '-', '_'}, the error carries exactly the delimiters
\* found; with one delimiter the value is new(text, that delimiter) and its
\* case has that separator, with none the value is new(text, no separator).
C3_TryFromMixedSeperators ==
    op = "try_from" =>
        /\ ~cs.ok <=> Cardinality(FoundDelimiters) >= 2
        /\ ~cs.ok => cs.err = FoundDelimiters
        /\ \A c \in FoundDelimiters :
              FoundDelimiters = {c} =>
                 /\ cs.ok
                 /\ cs.v = CapitalizedString_new(data, Some(c))
                 /\ seperator(cs.v.case) = Some(c)
        /\ FoundDelimiters = {} => (cs.ok /\ cs.v = CapitalizedString_new(data, None))

C3_Witness ==
    /\ op = "try_from"
    /\ ~cs.ok
    /\ cs.err = {"-", "_"}

\* the words a change_case to `case` leaves alone
C4_NothingToDo(self, case) ==
    /\ \A i \in 1..Len(self.words) :
          C2_ExpectedWord(case, i, self.words[i].s) = self.words[i].s
    /\ seperator(case) = seperator(self.case) \/ Len(self.words) <= 1

\* C4: a change_case whose target case every word already satisfies, with
\* the separator unchanged or at most one word, on a value that still has
\* its original text, keeps the original text, leaves every word as it is
\* and borrowed, and the rendering is the borrowed original text.
C4_NoOpKeepsOriginal ==
    [][(ChangeCaseStep /\ IsSome(cs.v.original_data) /\ C4_NothingToDo(cs.v, cs'.v.case))
        => /\ cs'.v.original_data = cs.v.original_data
           /\ cs'.v.words = cs.v.words
           /\ AllBorrowed(cs'.v.words)
           /\ render(cs'.v) = Borrowed(data)]_vars

C4_Witness ==
    /\ op = "change_case"
    /\ cs.v.case = Snake
    /\ Len(cs.v.words) >= 2
    /\ AllBorrowed(cs.v.words)
    /\ cs.v.original_data = Some(data)
    /\ \E i \in 1..Len(data) : data[i] = "_"

\* C5: new(t, sep) rendered before any change_case call is t, for every
\* text t and every separator choice.
C5_NewRendersText ==
    op = "new" => to_string(cs.v) = data

C5_Witness ==
    /\ op = "new"
    /\ Len(cs.v.words) >= 2
    /\ to_string(cs.v) = data

\* the offsets (1-based) of the uppercase characters of a text
UpperAt(text) == {i \in 1..Len(text) : is_uppercase(text[i])}
\* the end of the word that starts at uppercase offset i
C6_WordEnd(text, i) ==
    IF \E j \in UpperAt(text) : j > i
    THEN (CHOOSE j \in UpperAt(text) : j > i /\ \A k \in UpperAt(text) : k > i => j <= k) - 1
    ELSE Len(text)

RECURSIVE C6_WordsFrom(_, _)
C6_WordsFrom(text, i) ==
    IF i > Len(text) THEN <<>>
    ELSE <<SubSeq(text, i, C6_WordEnd(text, i))>> \o C6_WordsFrom(text, C6_WordEnd(text, i) + 1)

C6_Expected(text) ==
    LET first == CHOOSE i \in UpperAt(text) : \A k \in UpperAt(text) : i <= k
    IN  (IF first > 1 THEN <<SubSeq(text, 1, first - 1)>> ELSE <<>>)
        \o C6_WordsFrom(text, first)

\* C6: Case::split with no separator on a text with an uppercase character
\* gives the text before the first uppercase character (when not empty) and
\* then one word per uppercase character, up to the next one or the end;
\* no word is empty and the words concatenated are the text.
C6_SplitCapitalized ==
    (op = "split" /\ spl.sep = None /\ HasUpper(data)) =>
        /\ texts(spl.words) = C6_Expected(data)
        /\ \A i \in 1..Len(spl.words) : spl.words[i].s # <<>>
        /\ join(spl.words, None) = data

C6_Witness ==
    /\ op = "split"
    /\ spl.sep = None
    /\ data = testWithoutSeperator
    /\ texts(spl.words) = << <<"t","e","s","t">>, <<"W","i","t","h","o","u","t">>,
                             <<"S","e","p","e","r","a","t","o","r">> >>

--------------------------------------------------------------------------
(* Properties of the Levenshtein metric, checked under SpecLev *)

\* C7: the two-row dynamic-programming edit distance equals the reference
\* recursive edit distance for every pair of texts and either flag;
\* kitten/sitting gives 3.
C7_DynamicIsRecursive ==
    op = "dynamic_distance" =>
        /\ lev.raw = recursive_distance(lev.ignore_case, lev.a, lev.b)
        /\ (lev.a = kitten /\ lev.b = sitting) => lev.raw = 3

C7_Witness ==
    /\ op = "dynamic_distance"
    /\ lev.a = kitten
    /\ lev.b = sitting
    /\ lev.raw = 3

\* C8: distance(option, input) is the raw edit distance divided by
\* max(len(option), len(input)), is 0 when both texts are empty, and always
\* lies in [0, 1].
C8_DistanceNormalized ==
    op = "distance" =>
        LET max == Max(Len(lev.a), Len(lev.b))
        IN  /\ lev.dist.kind = "num"
            /\ 0 <= lev.dist.num /\ lev.dist.num <= lev.dist.den
            /\ max = 0 => lev.dist.num = 0
            /\ max > 0 => lev.dist = Ratio(dynamic_distance(lev.ignore_case, lev.a, lev.b), max)

\* C9: the metric is symmetric: the raw edit distance and the normalized
\* distance from a to b are those from b to a, under either flag.
C9_Symmetric ==
    /\ op = "dynamic_distance" => lev.raw = dynamic_distance(lev.ignore_case, lev.b, lev.a)
    /\ op = "distance" => lev.dist = distance(lev.ignore_case, lev.b, lev.a)

C9_Witness ==
    /\ op = "dynamic_distance"
    /\ Len(lev.a) < Len(lev.b)
    /\ lev.raw > Len(lev.b) - Len(lev.a)
    /\ lev.raw = dynamic_distance(lev.ignore_case, lev.b, lev.a)

--------------------------------------------------------------------------
(* Properties of sort_with, checked under SpecSort *)

\* the distance as C8 states it: a number in [0, 1], 0 for two empty texts
C10_Distance(option, input) ==
    IF Max(Len(option), Len(input)) = 0 THEN Ratio(0, 1)
    ELSE Ratio(dynamic_distance(FALSE, option, input), Max(Len(option), Len(input)))

C10_Less(d1, d2) == d1.num * d2.den < d2.num * d1.den

\* C10: sort_with returns a permutation of the candidates in ascending
\* order of their distance to the input, candidates of equal distance in
\* their input order; apple, apply, ape with input appl stay in that order.
C10_SortedStable ==
    op = "sort_with" =>
        LET d(it) == C10_Distance(get_str(it), srt.input)
            r == srt.result
        IN  /\ Len(r) = Len(srt.candidates)
            /\ \A i \in 1..Len(r) : srt.candidates[r[i].id] = r[i]
            /\ \A i, j \in 1..Len(r) : i # j => r[i].id # r[j].id
            /\ \A i, j \in 1..Len(r) :
                  i < j => /\ ~C10_Less(d(r[j]), d(r[i]))
                           /\ ~C10_Less(d(r[i]), d(r[j])) => r[i].id < r[j].id
            /\ (srt.candidates = Items(<<apple, apply, ape>>) /\ srt.input = appl)
                  => r = srt.candidates

--------------------------------------------------------------------------
(* Properties of SameStartBoost, checked under SpecBoost *)

\* two f64 results are the same value: the same number, both infinite or
\* both NaN
f64_same(x, y) ==
    IF x.kind = "num" /\ y.kind = "num" THEN x.num * y.den = y.num * x.den
    ELSE x.kind = y.kind

\* C11: SameStartBoost::distance returns
\* base * (1 - prefix_len / max(len(option), len(input)) * same_start_bonus)
\* and, with same_start_bonus = 0, the wrapped metric's distance, for every
\* option and input.
C11_BoostFormula ==
    op = "boost_distance" =>
        LET b == bst.self.same_start_bonus
            pf == f64_div(prefix_len(bst.self.ignore_case, bst.option, bst.input),
                          Max(Len(bst.option), Len(bst.input)))
            factor == IF pf.kind = "num"
                      THEN Ratio(pf.den * b.den - pf.num * b.num, pf.den * b.den)
                      ELSE NaN
        IN  /\ f64_same(bst.result, f64_mul(bst.base, factor))
            /\ b.num = 0 => f64_same(bst.result, bst.base)

--------------------------------------------------------------------------
(* Further properties of CapitalizedString, checked under SpecCap *)

HasLower(text) == \E i \in 1..Len(text) : is_lowercase(text[i])

\* C12: new(text, None) sets the case to Lower when text is empty or has
\* no uppercase character, to Upper when it has an uppercase but no
\* lowercase character, to Pascal when it has both and starts with an
\* uppercase character, and to Camel when it has both and does not;
\* new(text, Some(sep)) sets it to Other with no word case and seperator
\* sep.
C12_NewCase ==
    op = "new" =>
        IF IsSome(arg.sep)
        THEN cs.v.case = [kind |-> "Other", case |-> None, seperator |-> arg.sep]
        ELSE /\ (data = <<>> \/ ~HasUpper(data)) => cs.v.case = CaseLower
             /\ (HasUpper(data) /\ ~HasLower(data)) => cs.v.case = CaseUpper
             /\ (HasUpper(data) /\ HasLower(data) /\ is_uppercase(data[1]))
                    => cs.v.case = Pascal
             /\ (HasUpper(data) /\ HasLower(data) /\ ~is_uppercase(data[1]))
                    => cs.v.case = Camel

\* new without a seperator has classified a text that has both kinds of
\* letters and does not start with one
C12_Witness ==
    /\ op = "new"
    /\ arg.sep = None
    /\ Len(data) = 3
    /\ ~is_uppercase(data[1]) /\ ~is_lowercase(data[1])
    /\ HasUpper(data) /\ HasLower(data)
    /\ cs.v.case = Camel

HasOwned(words) == \E i \in 1..Len(words) : words[i].owned

\* C14: change_case is idempotent: change_case(C) leaves the value in case
\* C, and change_case(C) on a value whose case is already C leaves
\* original_data, every word (text and borrowed/owned status) and the case
\* unchanged.
C14_ChangeCaseIdempotent ==
    [][ChangeCaseStep => /\ cs'.v.case = arg'.case
                         /\ arg'.same => cs' = cs]_vars

\* change_case was called with the case the value already had, on a value
\* that an earlier change_case had rewritten
C14_Witness ==
    /\ op = "change_case"
    /\ arg.same
    /\ cs.v.case = Kebab
    /\ cs.v.original_data = None
    /\ Len(cs.v.words) = 2
    /\ HasOwned(cs.v.words)

\* C15: apart from try_from/new_into every operation is total: for every
\* input text WordCase conversion, Case::split, Case::convert,
\* CapitalizedString::new, change_case and rendering complete without a
\* panic.
C15_NoPanic == op # "panic"

--------------------------------------------------------------------------
(* Properties of move_file, checked under SpecMove *)

\* C16: move_file returns MoveError::TargetNotFound when the destination
\* dst does not exist.
C16_TargetNotFound ==
    (op = "move_file" /\ mv.before.dst.kind = "missing") =>
        (~mv.result.ok /\ mv.result.err = "TargetNotFound")

\* C17: move_file returns MoveError::FileNotFound whenever the source file
\* does not exist and dst is an existing directory, with dry_run = true and
\* with dry_run = false, and then changes nothing on the filesystem.
C17_FileNotFound ==
    (op = "move_file" /\ mv.before.file.kind = "missing" /\ mv.before.dst.kind = "dir") =>
        /\ ~mv.result.ok /\ mv.result.err = "FileNotFound"
        /\ mv.fs = mv.before

--------------------------------------------------------------------------
(* Properties of Inputs, checked under SpecInputs *)

\* C18: for an Inputs built by Inputs::new(Some(b), _), ask_consent returns
\* b without reading any user input; user input is read only when it was
\* built with None.
C18_DefaultAnswer ==
    op = "ask_consent" =>
        /\ IsSome(inp.bools) => (inp.answer = Unwrap(inp.bools) /\ inp.reads = 0)
        /\ inp.reads > 0 => inp.bools = None

--------------------------------------------------------------------------
(* Properties of TmpFile, checked under SpecTmp *)

\* a step of Drop (the only action that sets op to "drop")
DropStep == op' = "drop"

\* C19: after new_empty or new_copy succeeded, dropping the TmpFile removes
\* the file at its path; if was_removed() was called before the drop, the
\* drop performs no filesystem removal; over the lifetime of one TmpFile
\* the removal is performed at most once.
C19_DropRemovesOnce ==
    [][DropStep =>
        LET self == Unwrap(tmp.self)
        IN  /\ ~self.is_removed =>
                  /\ tmp'.fs[self.path] = Missing
                  /\ tmp'.remove_calls = tmp.remove_calls + 1
                  /\ \A p \in Paths \ {self.path} : tmp'.fs[p] = tmp.fs[p]
            /\ self.is_removed =>
                  /\ tmp'.fs = tmp.fs
                  /\ tmp'.remove_calls = tmp.remove_calls
            /\ tmp'.remove_calls <= 1]_vars

\* a TmpFile was dropped and the drop removed its file; another file is
\* still there
C19_Witness ==
    /\ op = "drop"
    /\ tmp.remove_calls = 1
    /\ ~tmp.panicked
    /\ Unwrap(tmp.self).is_removed
    /\ tmp.fs[Unwrap(tmp.self).path] = Missing
    /\ \E p \in Paths : tmp.fs[p].kind = "file" /\ tmp.fs[p].content # 0

--------------------------------------------------------------------------
(* Properties of BitSet, checked under SpecBits *)

\* 2^n
RECURSIVE Pow2(_)
Pow2(n) == IF n = 0 THEN 1 ELSE 2 * Pow2(n - 1)

\* bit index of the set, counted from the lowest bit of the first byte
BitAt(bytes, index) == (bytes[(index \div 8) + 1] \div Pow2(index % 8)) % 2 = 1
BitIndices(bytes) == 0..(8 * Len(bytes) - 1)

\* C20: all() returns true exactly when every one of the 8*BYTES bits is
\* set (count() = 8*BYTES), any() returns true exactly when at least one
\* bit is set, and none() is the negation of any().
C20_AllAnyNone ==
    /\ op = "count" =>
          bits.count = Cardinality({i \in BitIndices(bits.bytes) : BitAt(bits.bytes, i)})
    /\ op = "all" =>
          /\ bits.flag <=> (\A i \in BitIndices(bits.bytes) : BitAt(bits.bytes, i))
          /\ bits.flag <=> (count(bits.bytes) = 8 * Len(bits.bytes))
    /\ op = "any" =>
          (bits.flag <=> (\E i \in BitIndices(bits.bytes) : BitAt(bits.bytes, i)))
    /\ op = "none" => (bits.flag <=> ~any(bits.bytes))

--------------------------------------------------------------------------
(* Properties of truncate_last_lines, checked under SpecTrunc *)

\* C21: for a file read from its start that consists of k
\* newline-terminated lines, truncate_last_lines::<N> leaves exactly the
\* first k - N lines when k > N and the single byte "\n" when k <= N, for
\* every N >= 0 and for files longer than one read buffer.
C21_TruncateLastLines ==
    op = "truncate_last_lines" =>
        LET k == Len(trl.lens)
        IN  IF k > trl.N
            THEN trl.file = FileOf(SubSeq(trl.lens, 1, k - trl.N))
            ELSE trl.file = <<"\n">>

\* the last line of a file of three lines was cut off, and what is left is
\* longer than one read buffer
C21_Witness ==
    /\ op = "truncate_last_lines"
    /\ trl.N = 1
    /\ Len(trl.lens) = 3
    /\ Len(trl.file) > BufLen
    /\ Len(trl.file) < Len(FileOf(trl.lens))

--------------------------------------------------------------------------
(* Properties of chunked, checked under SpecChunk *)

\* the elements of 0..n from position from on, at most size of them
Window(n, from, size) == [j \in 1..(Min(from + size, n) - from) |-> from + j - 1]

\* C22: for every window_size >= 1 and hop_length >= 1 the i-th chunk
\* yielded by chunked(window_size, hop_length) over a source of n elements
\* starts at position i * hop_length and holds the elements from there, up
\* to window_size of them, for exactly those i with i * hop_length < n;
\* (0..15).chunked(6, 4) yields 0..6, 4..10, 8..14, 12..15.
C22_Chunks ==
    op \in {"next", "end"} =>
        /\ \A i \in 0..(Len(chk.chunks) - 1) :
              /\ i * chk.self.hop_length < chk.n
              /\ chk.chunks[i + 1] =
                    Window(chk.n, i * chk.self.hop_length, chk.self.window_size)
        /\ op = "end" =>
              \A i \in 0..chk.n : i * chk.self.hop_length < chk.n => i < Len(chk.chunks)

--------------------------------------------------------------------------
(* Properties of Case::convert, checked under SpecConvert *)

\* a word satisfies a word case
Satisfies(case, word) ==
    CASE case = Lower -> ~HasUpper(word)
      [] case = Upper -> ~HasLower(word)
      [] case = Capitalized ->
            \A i \in 1..Len(word) :
                IF i = 1 THEN ~is_lowercase(word[i]) ELSE ~is_uppercase(word[i])

\* the word case Case::convert requires of the i-th word
Required(case, i) ==
    IF case = Camel THEN (IF i = 1 THEN Some(Lower) ELSE Some(Capitalized))
    ELSE case.case

\* C23: Case::convert returns words of the same number and order in which,
\* for Camel, the first satisfies Lower and every later one Capitalized,
\* and for Other every word satisfies the given word case (all untouched
\* when there is none); a word that already satisfied its required case is
\* returned untouched (still borrowed if it was borrowed), and the changed
\* flag is true exactly when at least one word was rewritten.
C23_CaseConvert ==
    op = "convert" =>
        LET in == cnv.words
            out == cnv.out
        IN  /\ Len(out) = Len(in)
            /\ \A i \in 1..Len(in) :
                  LET req == Required(cnv.case, i)
                  IN  /\ to_lowercase(out[i].s) = to_lowercase(in[i].s)
                      /\ IsSome(req) => Satisfies(Unwrap(req), out[i].s)
                      /\ (~IsSome(req) \/ Satisfies(Unwrap(req), in[i].s)) => out[i] = in[i]
            /\ cnv.changed <=> (\E i \in 1..Len(in) : out[i] # in[i])

\* convert to Camel left a first word untouched and rewrote a second one
C23_Witness ==
    /\ op = "convert"
    /\ cnv.case = Camel
    /\ cnv.changed
    /\ cnv.words = <<Borrowed(<<"a">>), Borrowed(<<"B", "B">>)>>
    /\ cnv.out = <<Borrowed(<<"a">>), Owned(<<"B", "b">>)>>

--------------------------------------------------------------------------
(* Properties of try_from, Case::split and into_owned, checked under       *)
(* SpecCap                                                                  *)

\* the capitalization-boundary split of a text: the split of C6 when the
\* text has an uppercase character, the whole text as one word when not
CapitalizationSplit(text) == IF HasUpper(text) THEN C6_Expected(text) ELSE <<text>>

Occurrences(text, c) == {i \in 1..Len(text) : text[i] = c}

\* the fragments from the i-th on, written one after the other with the
\* character c between two of them
RECURSIVE Interleaved(_, _, _)
Interleaved(frags, c, i) ==
    IF i > Len(frags) THEN <<>>
    ELSE IF i = Len(frags) THEN frags[i]
    ELSE frags[i] \o <<c>> \o Interleaved(frags, c, i + 1)

\* C25: Case::split with a separator character splits at every occurrence
\* of that character and keeps empty fragments: there is one fragment more
\* than there are occurrences, no fragment holds the separator, the
\* fragments with the separator between them are the text, so a leading, a
\* trailing or a doubled separator yields an empty word, and the empty text
\* yields one empty word.
C25_SplitSeperator ==
    (op = "split" /\ IsSome(spl.sep)) =>
        LET c == Unwrap(spl.sep)
            frags == texts(spl.words)
            n == Len(frags)
        IN  /\ n = Cardinality(Occurrences(data, c)) + 1
            /\ AllBorrowed(spl.words)
            /\ \A i \in 1..n : Occurrences(frags[i], c) = {}
            /\ Interleaved(frags, c, 1) = data
            /\ (data = <<>> => frags = << <<>> >>)
            /\ (data # <<>> /\ Head(data) = c => frags[1] = <<>>)
            /\ (data # <<>> /\ data[Len(data)] = c => frags[n] = <<>>)
            /\ \A i \in 1..(Len(data) - 1) :
                   (data[i] = c /\ data[i + 1] = c) =>
                       \E k \in 2..(n - 1) : frags[k] = <<>>

\* a text with a leading and doubled separator was split
C25_Witness ==
    /\ op = "split"
    /\ spl.sep = Some("_")
    /\ data = <<"_", "_", "a">>
    /\ texts(spl.words) = << <<>>, <<>>, <<"a">> >>

--------------------------------------------------------------------------
(* Non-comparable scores in sort_with, checked under SpecSort *)

\* C26: when the metric returns a non-comparable score (not-a-number) for
\* some candidates, sort_with completes and every candidate with a
\* non-comparable score comes after every candidate with a comparable
\* score, the comparable ones being in ascending order.
C26_NaNLast ==
    op = "sort_with" =>
        LET d(it) == distance(FALSE, get_str(it), srt.input)
            r == srt.result
        IN  /\ Len(r) = Len(srt.candidates)
            /\ \A i, j \in 1..Len(r) :
                  i < j => /\ ~(d(r[i]).kind = "NaN" /\ d(r[j]).kind # "NaN")
                           /\ (d(r[i]).kind # "NaN" /\ d(r[j]).kind # "NaN")
                                 => partial_cmp(d(r[i]), d(r[j])) # Some("Greater")

--------------------------------------------------------------------------
(* The comparison of characters in the edit distance, checked under SpecLev *)

\* two characters are the same ASCII letter in the same or the other case
SameAsciiLetter(x, y) == \E k \in 1..26 : {x, y} \subseteq {Lowers[k], Uppers[k]}

\* two texts differ at most in the case of ASCII letters
SameUpToAsciiCase(a, b) ==
    /\ Len(a) = Len(b)
    /\ \A i \in 1..Len(a) : a[i] = b[i] \/ SameAsciiLetter(a[i], b[i])

\* C27: the raw edit distance between a text and itself is 0 under either
\* flag; with ignore_case it is 0 between two texts that differ only in the
\* case of ASCII letters, and only between such texts; without ignore_case
\* it is 0 only between identical texts.
C27_ZeroDistance ==
    op \in {"dynamic_distance", "recursive_distance"} =>
        /\ lev.a = lev.b => lev.raw = 0
        /\ lev.ignore_case => (lev.raw = 0 <=> SameUpToAsciiCase(lev.a, lev.b))
        /\ ~lev.ignore_case => (lev.raw = 0 <=> lev.a = lev.b)

\* the distance of two texts that differ only in the case of ASCII letters
\* was computed with ignore_case and is 0
C27_Witness ==
    /\ op = "dynamic_distance"
    /\ lev.ignore_case
    /\ lev.a = <<"a", "A", "b">>
    /\ lev.b = <<"A", "A", "b">>
    /\ lev.raw = 0

--------------------------------------------------------------------------
(* into_owned, checked under SpecCap *)

\* a step of IntoOwned (the only action that sets op to "into_owned")
IntoOwnedStep == op' = "into_owned"

\* C28: from every state reached by new or try_from and change_case calls,
\* into_owned yields a value without original_data, with every word owned
\* and of the same text in the same order, with the same case, and whose
\* rendered text is the rendered text of the value before into_owned.
C28_IntoOwned ==
    [][IntoOwnedStep =>
          /\ cs'.v.original_data = None
          /\ Len(cs'.v.words) = Len(cs.v.words)
          /\ \A i \in 1..Len(cs.v.words) :
                cs'.v.words[i].owned /\ cs'.v.words[i].s = cs.v.words[i].s
          /\ cs'.v.case = cs.v.case
          /\ to_string(cs'.v) = to_string(cs.v)]_vars

--------------------------------------------------------------------------
(* get, set, flip and the shift of BitSet, checked under SpecBits *)

\* C29: for every BitSet and every index i < 8*BYTES, after set(i, v)
\* get(i) returns v and every other bit is unchanged, and flip(i) inverts
\* bit i and leaves every other bit unchanged, so that a second flip(i)
\* restores the set.
C29_SetGetFlip ==
    [][/\ op' = "set" =>
             /\ bits.index' < 8 * Len(bits.bytes)
             /\ Len(bits.bytes') = Len(bits.bytes)
             /\ \A i \in BitIndices(bits.bytes) :
                   BitAt(bits.bytes', i) =
                       IF i = bits.index' THEN bits.value' ELSE BitAt(bits.bytes, i)
       /\ op' = "flip" =>
             /\ bits.index' < 8 * Len(bits.bytes)
             /\ Len(bits.bytes') = Len(bits.bytes)
             /\ \A i \in BitIndices(bits.bytes) :
                   BitAt(bits.bytes', i) =
                       IF i = bits.index' THEN ~BitAt(bits.bytes, i) ELSE BitAt(bits.bytes, i)
             /\ flip(bits.bytes', bits.index') = bits.bytes
       /\ (op = "set" /\ op' = "get" /\ bits.index' = bits.index) =>
             bits.flag' = bits.value
       /\ op' = "get" => (bits.flag' = BitAt(bits.bytes, bits.index'))
       /\ (op' = "panic" /\ op \in {"start", "set", "flip"}) =>
             bits.index' >= 8 * Len(bits.bytes)]_vars

\* bit 9 of a two-byte set was cleared by set and then read by get
C29_Witness ==
    /\ op = "get"
    /\ bits.bytes = <<255, 253>>
    /\ bits.index = 9
    /\ ~bits.value
    /\ ~bits.flag

\* the unsigned integer whose little-endian bytes from the i-th on are given
RECURSIVE FromLeBytes(_, _)
FromLeBytes(bytes, i) ==
    IF i > Len(bytes) THEN 0 ELSE bytes[i] + 256 * FromLeBytes(bytes, i + 1)

\* (v << k) modulo 2^bitlen for k < bitlen: the bits of v from bitlen - k on
\* are lost and the others move up by k
ShiftedInt(v, k, bitlen) == (v % Pow2(bitlen - k)) * Pow2(k)

\* C30: for every BitSet<BYTES> and every shift k with 0 <= k < 8*BYTES,
\* (set << k) has bit i + k set exactly when set has bit i set, for
\* i + k < 8*BYTES, and has the bits 0..k cleared: it is the unsigned
\* integer left shift modulo 2^(8*BYTES), for BYTES = 1, for shifts by
\* whole bytes and for the other shifts.
C30_Shl ==
    [][(op' = "shl" /\ bits.index' < 8 * Len(bits.bytes)) =>
          LET k == bits.index'
              n == 8 * Len(bits.bytes)
          IN  /\ Len(bits.bytes') = Len(bits.bytes)
              /\ \A j \in BitIndices(bits.bytes) :
                    BitAt(bits.bytes', j) = (j >= k /\ BitAt(bits.bytes, j - k))
              /\ FromLeBytes(bits.bytes', 1) = ShiftedInt(FromLeBytes(bits.bytes, 1), k, n)]_vars

\* the set of tests::shift was shifted by 9
C30_Witness ==
    /\ op = "shl"
    /\ bits.index = 9
    /\ bits.bytes = <<0, 130>>

====
